---- MODULE Spec2Model ----
(***************************************************************************)
(* FaradayCage.runCode (src/lib/main.ts) together with the module          *)
(* authoring contract (src/lib/modules/_mod_authoring.ts), the timers      *)
(* module (src/unnamed/part_005) and the fetch bridge                      *)
(* (src/lib/modules/fetch.ts), as one state machine.                       *)
(*                                                                         *)
(* One evaluation is modelled: runCode's position is pc; guest code is a   *)
(* nondeterministic sequence of calls into the host functions the loaded   *)
(* modules installed, made while a guest frame (the script, a promise job, *)
(* a timer callback) is active.  JavaScript is single threaded: host       *)
(* events (a host timer firing, a fetch completing, a keep-alive promise   *)
(* settling) happen only while runCode is suspended at an await, or after  *)
(* it has returned.                                                        *)
(***************************************************************************)
EXTENDS Integers, Sequences, FiniteSets, TLC

\* ------------------------------------------------------------- bounds
\* An evaluation has at most MaxModules modules, and its size, the number of
\* modules plus the number of host functions the guest calls, is at most
\* MaxSize; an interval's callback is entered at most MaxIntervalFires times.
MaxModules == 2
MaxSize == 5
MaxIntervalFires == 1
NumArgs == 1
\* Host values given to marshalToVM: arrays, objects and errors have at most
\* MaxLen elements or properties of primitive values, or one element or
\* property that is itself such a value, nested at most MaxDepth deep.
MaxLen == 2
MaxDepth == 2
\* runCode is called NumEvals times on one cage with the same module
\* objects, and the guests of these calls make at most MaxCalls calls of
\* host functions between them.
NumEvals == 2
MaxCalls == 4

VARIABLES
  modules,            \* the modules argument: a sequence of module kinds
  pc,                 \* runCode's position
  loadedModuleCtx,    \* main.ts:55, the module contexts pushed so far
  defLog,             \* one entry per def invocation, in order
  evalCalls,          \* number of vm.evalCodeAsync calls
  evalError,          \* whether the eval result carries an error
  hookLog,            \* the after-script hooks invoked, in order
  allPromises,        \* main.ts:89, the snapshot the pump loop waits for
  settled,            \* main.ts:93
  keepAlive,          \* state of the keep-alive promise of each module
  jobs,               \* the guest job queue (pending promise jobs)
  nextJob,            \* next job number
  jobLog,             \* the jobs run, in order
  frame,              \* the guest frame that is executing, if any
  budget,             \* guest calls left in this evaluation
  timers,             \* part_005:39  id -> TimerInfo
  hostTimers,         \* ids with a scheduled host setTimeout/setInterval
  nextTimerId,        \* part_005:40
  isCleaningUp,       \* part_005:41
  activeTimerCount,   \* part_005:42
  resolveKeepAlive,   \* part_005:45  "orig", "wrapped" or "null"
  timerCalls,         \* the guest's setTimeout/setInterval calls and the ids returned
  created,            \* id -> type of every timer ever registered
  fireCount,          \* id -> number of times the guest callback was invoked
  clearedByGuest,     \* ids the guest cleared while they were in the table
  fetchOps,           \* pending host fetches (their guest promise handles)
  alive,              \* handles and resources that are alive
  managed,            \* the scope's disposables, in registration order
  disposeLog,         \* what the scope disposed, in order
  scopeDisposals,     \* number of times the scope was disposed
  thrown,             \* the exception that left the scope body, or "none"
  thrownAt,           \* runCode's position when that exception was thrown
  result,             \* what runCode's promise settled with
  returns,            \* number of times runCode's promise settled
  useAfterDispose,    \* a host callback called into a disposed context
  callbackThrew,      \* a guest timer callback ended by throwing
  delay,              \* part_005:123, the delay argument of a timer call
  delayFor,           \* the function that was called with it
  delayMs,            \* part_005:135-140, the delay given to the host timer
  value,              \* marshalling.ts:13, the host value given to marshalToVM
  marshalled,         \* what the call did and returned
  guestPromise,       \* the guest promise of a marshalled host promise
  unhandledRejection, \* a host promise was rejected and nothing handles it
  entries,            \* console.ts:93, the entries of each console module
  onFinishCalls,      \* the calls of eventHandler.onFinish and their argument
  guestErrors,        \* the errors host functions raised in the guest
  evals,              \* the runCode calls on one cage: what each created
  closures,           \* the variables the defs declared, by closure
  actor,              \* the runCode call the last step belongs to
  counters,           \* console.ts:90, label -> count
  consoleTimers,      \* console.ts:91, label -> start time
  groupDepth,         \* console.ts:92
  now,                \* the host clock, Date.now()
  consoleCalls,       \* the console calls made, with what the handler was told
  pushLog             \* the keep-alive promises appended after def, and when

runVars == <<modules, pc, loadedModuleCtx, defLog, evalCalls, evalError, hookLog,
             allPromises, settled, thrown, thrownAt, result, returns>>
guestVars == <<jobs, nextJob, jobLog, frame, budget>>
timerVars == <<timers, hostTimers, nextTimerId, isCleaningUp, activeTimerCount,
               resolveKeepAlive, timerCalls, created, fireCount, clearedByGuest>>
scopeVars == <<alive, managed, disposeLog, scopeDisposals>>
delayVars == <<delay, delayFor, delayMs>>
marshalVars == <<value, marshalled, guestPromise, unhandledRejection>>
bridgeVars == <<entries, onFinishCalls, guestErrors>>
cageVars == <<evals, closures, actor>>
consoleVars == <<counters, consoleTimers, groupDepth, now, consoleCalls>>
extVars == <<callbackThrew, delayVars, marshalVars, bridgeVars, cageVars, consoleVars, pushLog>>
vars == <<runVars, guestVars, timerVars, scopeVars, keepAlive, fetchOps,
          useAfterDispose, extVars>>

\* ------------------------------------------------------------ helpers
RECURSIVE Flatten(_)
Flatten(ss) == IF ss = <<>> THEN <<>> ELSE Head(ss) \o Flatten(Tail(ss))

Reverse(s) == [k \in 1..Len(s) |-> s[Len(s) + 1 - k]]

Range(s) == {s[k] : k \in 1..Len(s)}

SeqsUpTo(S, n) == UNION {[1..k -> S] : k \in 0..n}

\* ------------------------------------------------------------ modules
\* "timers"     src/unnamed/part_005
\* "fetch"      src/lib/modules/fetch.ts
\* "throwing"   part_001:58, a module whose def throws
\* "hook"       part_001:100, a module that registers after-script hooks
\* "hookThrows" a module whose after-script hook throws
\* "keepAlive"  a module that registers a host promise as keep-alive
ModuleKinds == {"timers", "fetch", "throwing", "hook", "hookThrows", "keepAlive"}

\* "console"    src/lib/modules/console.ts:88-274
\* "sandboxFn"  a module that installs one host function with defineSandboxFn
BridgeKinds == {"console", "sandboxFn"}

\* "pusher"     a module whose host function and whose after-script hook
\*              each append a promise to ctx.keepAlivePromises
\*              (_mod_authoring.ts:12-18)
PushKinds == {"pusher"}

\* The handles of the resources runCode itself manages.
RuntimeH == <<"runtime", 0, 0>>
VmH == <<"vm", 0, 0>>
EvalResultH == <<"evalResult", 0, 0>>

\* The sandbox function handles a module's def creates with
\* defineSandboxFunctionRaw (scope-managed, _mod_authoring.ts:42).
SandboxFns(kind, i) ==
  CASE kind = "timers" -> <<<<"fn", i, 1>>, <<"fn", i, 2>>, <<"fn", i, 3>>, <<"fn", i, 4>>>>
    [] kind = "fetch" -> <<<<"fn", i, 1>>>>
    [] kind = "console" -> <<<<"fn", i, 1>>>>
    [] kind = "sandboxFn" -> <<<<"fn", i, 1>>>>
    [] kind = "pusher" -> <<<<"fn", i, 1>>>>
    [] OTHER -> <<>>

\* The after-script hooks a module's def appends to its context.
HooksOfDef(kind, i) ==
  CASE kind = "timers" -> <<[mod |-> i, idx |-> 1, kind |-> "timers"]>>
    [] kind = "hook" -> <<[mod |-> i, idx |-> 1, kind |-> "flag"],
                          [mod |-> i, idx |-> 2, kind |-> "flag"]>>
    [] kind = "hookThrows" -> <<[mod |-> i, idx |-> 1, kind |-> "throws"]>>
    [] kind = "console" -> <<[mod |-> i, idx |-> 1, kind |-> "console"]>>
    [] kind = "pusher" -> <<[mod |-> i, idx |-> 1, kind |-> "push"]>>
    [] OTHER -> <<>>

\* The keep-alive promises a module's def appends to its context.
KeepAlivesOfDef(kind, i) ==
  IF kind \in {"timers", "keepAlive"} THEN <<i>> ELSE <<>>

\* The timers module whose functions are the guest's globals: the last one
\* loaded (each def overwrites setTimeout, ..., part_005:243-246).
ActiveTimers ==
  LET S == {i \in 1..Len(defLog) : modules[i] = "timers" /\ ~defLog[i].threw}
  IN IF S = {} THEN 0 ELSE CHOOSE i \in S : \A j \in S : j <= i

FetchLoaded == \E i \in 1..Len(defLog) : modules[i] = "fetch"

\* The console module whose object is the guest's global console: the last
\* one loaded (console.ts:269).
ActiveConsole ==
  LET S == {i \in 1..Len(defLog) : modules[i] = "console"}
  IN IF S = {} THEN 0 ELSE CHOOSE i \in S : \A j \in S : j <= i

\* The pusher module whose function is the guest's global: the last one
\* loaded.
ActivePusher ==
  LET S == {i \in 1..Len(defLog) : modules[i] = "pusher"}
  IN IF S = {} THEN 0 ELSE CHOOSE i \in S : \A j \in S : j <= i

SandboxFnLoaded == \E i \in 1..Len(defLog) : modules[i] = "sandboxFn"

\* The hooks of the loaded modules, last registered first.
AllHooksReversed ==
  Reverse(Flatten([k \in 1..Len(loadedModuleCtx) |->
                     loadedModuleCtx[k].afterScriptExecutionHooks]))

\* main.ts:82-86, the hooks in the order the two nested loops visit them.
AllHooks == Flatten([k \in 1..Len(loadedModuleCtx) |->
                       loadedModuleCtx[k].afterScriptExecutionHooks])

\* ------------------------------------------------------------- runCode
\* main.ts:122 / main.ts:119, what the promise of runCode settles with.
\* A catch clause that rethrows: the promise of runCode is rejected with e.
CatchRethrows(e) == [type |-> "rejected", err |-> e]

CatchResult(e) == [type |-> "error", err |-> e]

OkResult == [type |-> "ok", err |-> "none"]

\* One context shared by the defs: a def is handed what the previous one
\* left behind.
SharedModCtx(prev) ==
  IF prev = <<>>
  THEN [afterScriptExecutionHooks |-> <<>>, keepAlivePromises |-> <<>>]
  ELSE prev[Len(prev)]

\* main.ts:58-64, the module context handed to a def.
NewModCtx(prev) == [afterScriptExecutionHooks |-> <<>>, keepAlivePromises |-> <<>>]

\* The context registered with the scope before the runtime.
ScopeSetupSwapped == <<VmH, RuntimeH>>

\* main.ts:53-54, what runCode registers with the scope, in order.
ScopeSetup == <<RuntimeH, VmH>>

\* The state of an evaluation before runCode has done anything.
Fresh ==
  /\ pc = "start"
  /\ loadedModuleCtx = <<>>
  /\ defLog = <<>>
  /\ evalCalls = 0
  /\ evalError = FALSE
  /\ hookLog = <<>>
  /\ allPromises = <<>>
  /\ settled = FALSE
  /\ keepAlive = [i \in 1..Len(modules) |-> "none"]
  /\ jobs = <<>>
  /\ nextJob = 1
  /\ jobLog = <<>>
  /\ frame = [kind |-> "none", timer |-> 0]
  /\ budget = MaxSize - Len(modules)
  /\ timers = <<>>
  /\ hostTimers = {}
  /\ nextTimerId = 1
  /\ isCleaningUp = FALSE
  /\ activeTimerCount = 0
  /\ resolveKeepAlive = "orig"
  /\ timerCalls = <<>>
  /\ created = <<>>
  /\ fireCount = <<>>
  /\ clearedByGuest = {}
  /\ fetchOps = {}
  /\ alive = {}
  /\ managed = <<>>
  /\ disposeLog = <<>>
  /\ scopeDisposals = 0
  /\ thrown = "none"
  /\ thrownAt = "none"
  /\ result = [type |-> "pending", err |-> "none"]
  /\ returns = 0
  /\ useAfterDispose = FALSE
  /\ callbackThrew = FALSE
  /\ entries = [i \in 1..Len(modules) |-> <<>>]
  /\ onFinishCalls = <<>>
  /\ guestErrors = <<>>

\* ----------------------------------------------------- delay coercion
\* JavaScript values as far as the delay coercion tells them apart: the
\* type tag, and for a finite number its sign and its magnitude
\* hi * Limb + lo.  "missing" is an argument that was not passed.
Limb == 65536
MaxDelayHi == 32767
MaxDelayLo == 65535

Val(type) == [type |-> type, neg |-> FALSE, hi |-> 0, lo |-> 0]
Num(neg, hi, lo) == [type |-> "number", neg |-> neg, hi |-> hi, lo |-> lo]
Zero == Num(FALSE, 0, 0)

\* part_005:140, the literal 2147483647.
MaxDelay == Num(FALSE, MaxDelayHi, MaxDelayLo)

\* typeof v === "number": NaN and the infinities are numbers too.
TypeofNumber(v) == v.type \in {"number", "nan", "infinity"}

\* a < b for JavaScript numbers: false when either is NaN.
Less(a, b) ==
  LET MagLess(x, y) == x.hi < y.hi \/ (x.hi = y.hi /\ x.lo < y.lo)
      IsZero(x) == x.type = "number" /\ x.hi = 0 /\ x.lo = 0
      Negative(x) == x.neg /\ ~IsZero(x)
  IN  CASE a.type = "nan" \/ b.type = "nan" -> FALSE
        [] a.type = "infinity" -> a.neg /\ ~(b.type = "infinity" /\ b.neg)
        [] b.type = "infinity" -> ~b.neg
        [] Negative(a) /\ ~Negative(b) -> TRUE
        [] ~Negative(a) /\ Negative(b) -> FALSE
        [] Negative(a) /\ Negative(b) -> MagLess(b, a)
        [] OTHER -> MagLess(a, b)

isFinite(v) == v.type = "number"

\* A minimum that always takes its first argument.
MathMinFirst(a, b) == a

\* Math.min(a, b) as part_005:140 and 186 use it.
MathMin(a, b) ==
  IF a.type = "nan" \/ b.type = "nan" THEN Val("nan")
  ELSE IF Less(b, a) THEN b ELSE a

\* part_005:135-140 and 181-186: the delay handed to the host timer.
\* vm.dump gives the guest value back; an argument that was not passed
\* counts as 0.
CoerceDelay(d) ==
  LET dumped == IF d.type # "missing" THEN d ELSE Zero
      checked == IF ~TypeofNumber(dumped) \/ Less(dumped, Zero) \/ ~isFinite(dumped)
                 THEN Zero
                 ELSE dumped
  IN  MathMin(checked, MaxDelay)

\* The delay arguments tried: every kind of value that is no finite number,
\* and finite numbers of both signs around 0, 1 and the maximum delay.
DelayArgs ==
  {Val(t) : t \in {"missing", "undefined", "null", "boolean", "string", "object", "nan"}}
  \cup {[type |-> "infinity", neg |-> n, hi |-> 0, lo |-> 0] : n \in BOOLEAN}
  \cup {Num(n, h, l) : n \in BOOLEAN,
                       h \in {0, MaxDelayHi - 1, MaxDelayHi, MaxDelayHi + 1},
                       l \in {0, 1, MaxDelayLo - 1, MaxDelayLo}}

\* No timer function is being called with a delay.
NoDelay ==
  /\ delay = Val("missing")
  /\ delayFor = "none"
  /\ delayMs = Val("unset")

\* ---------------------------------------------------------- marshalling
\* A host value: its type tag t, a number n (the value of a number or a
\* boolean, the identity of a string or an error), and the own enumerable
\* properties of an object or an error (keys, items) or the elements of an
\* array (items).  A promise has one item, what it settles with, under the
\* key "fulfil" or "reject".
H(t, n, keys, items) == [t |-> t, n |-> n, keys |-> keys, items |-> items]

\* A guest value behind a handle.
G(t, n, keys, items) == [gt |-> t, gn |-> n, gkeys |-> keys, gitems |-> items]

Prims ==
  {H(t, 0, <<>>, <<>>) : t \in {"null", "undefined", "string", "function"}}
  \cup {H(t, n, <<>>, <<>>) : t \in {"boolean", "number"}, n \in 0..1}

PropertyNames == {"a", "then"}

\* Sequences of distinct property names.
KeySeqs(n) ==
  {ks \in SeqsUpTo(PropertyNames, n) : \A i, j \in 1..Len(ks) : i # j => ks[i] # ks[j]}

\* The arrays, objects, errors and promises made of the values S, with at
\* most n elements or properties.
Composites(S, n) ==
  {H("array", 0, <<>>, items) : items \in SeqsUpTo(S, n)}
  \cup UNION {{H(t, 0, ks, items) : items \in [1..Len(ks) -> S], t \in {"object", "error"}} :
              ks \in KeySeqs(n)}
  \cup {H("promise", 0, <<how>>, <<v>>) : how \in {"fulfil", "reject"}, v \in S}

RECURSIVE HostValues(_)
HostValues(d) ==
  IF d = 0
  THEN Prims
  ELSE IF d = 1
       THEN Prims \cup Composites(Prims, MaxLen)
       ELSE HostValues(d - 1) \cup Composites(HostValues(d - 1) \ Prims, 1)

\* marshalling.ts:4-11
isPromise(v) ==
  \/ v.t = "promise"
  \/ /\ v.t \in {"object", "error", "array"}
     /\ \E i \in 1..Len(v.keys) : v.keys[i] = "then" /\ v.items[i].t = "function"

\* What a call of marshalToVM did: whether it threw, the handle it returned,
\* the values marshalToVM was called with (itself and its recursive calls,
\* in call order) and the number of guest arrays that were created.
ReturnHandle(handle, calls, newArrays) ==
  [threw |-> FALSE, handle |-> handle, calls |-> calls, newArrays |-> newArrays]
ThrowError(calls, newArrays) ==
  [threw |-> TRUE, handle |-> G("none", 0, <<>>, <<>>), calls |-> calls,
   newArrays |-> newArrays]

\* A function that is marshalled to undefined.
marshalFunctionAsUndefined(v) == ReturnHandle(G("undefined", 0, <<>>, <<>>), <<v>>, 0)

\* marshalling.ts:88-90
marshalFunction(v) == ThrowError(<<v>>, 0)

\* Object.entries(value) of marshalling.ts:65: of an array, its indices as
\* strings with its elements.
EntryKeys(v) ==
  IF v.t = "array" THEN [i \in 1..Len(v.items) |-> ToString(i - 1)] ELSE v.keys

RECURSIVE marshalToVM(_), MarshalEach(_)

\* marshalling.ts:31 and 65-69, values.map(marshalToVM): the values are
\* marshalled in order; the first that throws ends the map.
MarshalEach(vs) ==
  IF vs = <<>>
  THEN [threw |-> FALSE, handles |-> <<>>, calls |-> <<>>, newArrays |-> 0]
  ELSE LET h == marshalToVM(Head(vs))
       IN  IF h.threw
           THEN [threw |-> TRUE, handles |-> <<>>, calls |-> h.calls,
                 newArrays |-> h.newArrays]
           ELSE LET r == MarshalEach(Tail(vs))
                IN  [threw |-> r.threw,
                     handles |-> IF r.threw THEN <<>> ELSE <<h.handle>> \o r.handles,
                     calls |-> h.calls \o r.calls,
                     newArrays |-> h.newArrays + r.newArrays]

\* marshalling.ts:13-93.  The array branch (30-38) marshals the elements
\* and fills a new guest array, and has no return: control goes on to the
\* branches after it.
marshalToVM(v) ==
  IF v.t \in {"null", "undefined", "boolean"}
  THEN ReturnHandle(G(v.t, v.n, <<>>, <<>>), <<v>>, 0)
  ELSE
    LET arr == IF v.t = "array"
               THEN MarshalEach(v.items)
               ELSE [threw |-> FALSE, handles |-> <<>>, calls |-> <<>>, newArrays |-> 0]
        made == IF v.t = "array" THEN 1 ELSE 0
    IN
    IF arr.threw
    THEN ThrowError(<<v>> \o arr.calls, arr.newArrays)
    ELSE IF v.t = "error"
    THEN ReturnHandle(G("error", v.n, <<>>, <<>>), <<v>>, 0)
    ELSE IF isPromise(v)
    THEN ReturnHandle(G("promise", 0, <<>>, <<>>), <<v>>, 0)
    ELSE IF v.t \in {"object", "array"}
    THEN LET obj == MarshalEach(v.items)
         IN  IF obj.threw
             THEN ThrowError(<<v>> \o arr.calls \o obj.calls,
                         made + arr.newArrays + obj.newArrays)
             ELSE ReturnHandle(G("object", 0, EntryKeys(v), obj.handles),
                            <<v>> \o arr.calls \o obj.calls,
                            made + arr.newArrays + obj.newArrays)
    ELSE IF v.t \in {"string", "number"}
    THEN ReturnHandle(G(v.t, v.n, <<>>, <<>>), <<v>>, 0)
    ELSE marshalFunction(v)

\* vm.dump of a guest value (marshalling's inverse direction, used at
\* _mod_authoring.ts:33): a guest array becomes a host array, a guest object
\* a host object with the same keys in order.
RECURSIVE dump(_)
dump(g) ==
  IF g.gt = "array"
  THEN H("array", 0, <<>>, [i \in 1..Len(g.gitems) |-> dump(g.gitems[i])])
  ELSE H(g.gt, g.gn, g.gkeys, [i \in 1..Len(g.gitems) |-> dump(g.gitems[i])])

\* marshalToVM has not been called.
NotMarshalled == ThrowError(<<>>, 0)
NoPromise == [state |-> "none", with |-> G("none", 0, <<>>, <<>>)]
NoMarshal ==
  /\ value = H("undefined", 0, <<>>, <<>>)
  /\ marshalled = NotMarshalled
  /\ guestPromise = NoPromise
  /\ unhandledRejection = FALSE

\* ------------------------------------------- evaluations on one cage
\* The module objects every runCode call on the cage is given: the timers
\* module and the console module.
CageModules == <<"timers", "console">>

Evals == 1..NumEvals

\* main.ts:53-54 and Scope.withScopeAsync (52): a runCode call creates its
\* runtime, its context and its scope; an object carries the call that
\* created it.
RuntimeFor(e) == <<"runtime", e>>
VmFor(e) == <<"vm", e>>
ScopeFor(e) == <<"scope", e>>

\* main.ts:58-64: the module context made for module i of call e.
ModCtxFor(e, i) == <<"modCtx", e, i>>

\* The variables of a module that live in its factory: one closure for
\* every evaluation the module object is used in.
ClosureOfModule(e, i) == <<0, i>>

\* part_005:38-50 and console.ts:88-93: the variables of a module are
\* declared in its def, which runCode invokes (main.ts:66): call e has its
\* own closure for module i.
ClosureOf(e, i) == <<e, i>>

\* part_005:39-47 and console.ts:89-93: the variables as the def
\* initialises them.
NewClosure ==
  [nextTimerId |-> 1, timers |-> {}, activeTimerCount |-> 0, isCleaningUp |-> FALSE,
   keepAlive |-> "pending", hookRan |-> FALSE, counters |-> 0]

NoEval ==
  [pc |-> "idle", runtime |-> <<"none", 0>>, vm |-> <<"none", 0>>,
   scope |-> <<"none", 0>>, loadedModuleCtx |-> <<>>, calls |-> 0, ids |-> <<>>,
   counts |-> <<>>]

\* runCode has not been called on the cage.
NoEvals ==
  /\ evals = [e \in Evals |-> NoEval]
  /\ closures = <<>>
  /\ actor = 0

\* ------------------------------------------------- console functions
\* console.ts:89-92 as the def initialises them; the clock shows some
\* positive time.
FreshConsole ==
  /\ counters = <<>>
  /\ consoleTimers = <<>>
  /\ groupDepth = 0
  /\ now = 1
  /\ consoleCalls = <<>>

\* No console function is called.
NoConsole == FreshConsole

\* No module has appended a keep-alive promise after its def.
NoPush == pushLog = <<>>

\* The label argument of a console function: omitted, or a string.
LabelArgs ==
  {[given |-> FALSE, text |-> ""]} \cup {[given |-> TRUE, text |-> t] : t \in {"a", "default"}}

\* console.ts:127 (and 138, 145, 154, 170): the label a call is about.
LabelOf(arg) == IF arg.given THEN arg.text ELSE "default"

Get(map, key, default) == IF key \in DOMAIN map THEN map[key] ELSE default

\* A reset that forgets every counter.
countResetAll(map, label) == <<>>

\* console.ts:139, counters.set(label, 0)
countReset(map, label) == (label :> 0) @@ map

\* A groupEnd that does not look at the depth.
groupEndAlways(depth) == TRUE

\* console.ts:207, the guard of groupEnd
groupIsOpen(depth) == depth > 0

\* console.ts:158 and 174: the duration timeLog and timeEnd report.
Duration(startTime) == (now - startTime) \div 2

Told(v) == [told |-> TRUE, value |-> v]
NotTold == [told |-> FALSE, value |-> 0]

\* A console function was called: fn with the label, at the time now; out
\* is what the event handler was told, if anything.
Called(fn, label, out) ==
  Append(consoleCalls, [fn |-> fn, label |-> label, at |-> now, out |-> out])

\* runCode is called with any list of at most MaxModules modules.
Init ==
  /\ modules \in SeqsUpTo(ModuleKinds, MaxModules)
  /\ Fresh
  /\ NoDelay
  /\ NoMarshal
  /\ NoEvals
  /\ NoConsole
  /\ NoPush

\* An exception that is recorded while the body keeps running.
ThrowDeferred(e) == thrown' = e /\ thrownAt' = pc /\ UNCHANGED pc

\* An exception that is swallowed where it is thrown.
ThrowSwallowed(e) == UNCHANGED <<pc, thrown, thrownAt>>

\* An exception leaves the body of Scope.withScopeAsync (main.ts:52-117).
Throw(e) == pc' = "teardown" /\ thrown' = e /\ thrownAt' = pc

\* main.ts:51-54: enter the scope, create and manage runtime and context.
Start ==
  /\ pc = "start"
  /\ pc' = "defs"
  /\ managed' = ScopeSetup
  /\ alive' = Range(ScopeSetup)
  /\ UNCHANGED <<modules, loadedModuleCtx, defLog, evalCalls, evalError, hookLog,
                 allPromises, settled, thrown, thrownAt, result, returns, guestVars, timerVars,
                 disposeLog, scopeDisposals, keepAlive, fetchOps, useAfterDispose>>
  /\ UNCHANGED extVars

\* main.ts:57-68: the next module of the list gets a fresh context and its
\* def is invoked; a def that throws leaves the scope body.
DefModule ==
  /\ pc = "defs"
  /\ Len(defLog) < Len(modules)
  /\ LET i == Len(defLog) + 1
         kind == modules[i]
         modCtx == NewModCtx(loadedModuleCtx)
     IN /\ defLog' = Append(defLog,
                       [mod |-> i,
                        hooksAtEntry |-> Len(modCtx.afterScriptExecutionHooks),
                        keepAlivesAtEntry |-> Len(modCtx.keepAlivePromises),
                        evalCallsAtEntry |-> evalCalls,
                        threw |-> kind = "throwing"])
        /\ IF kind = "throwing"
           THEN /\ Throw("ModuleError")
                /\ UNCHANGED <<loadedModuleCtx, managed, alive, keepAlive>>
           ELSE /\ loadedModuleCtx' = Append(loadedModuleCtx,
                     [afterScriptExecutionHooks |->
                        modCtx.afterScriptExecutionHooks \o HooksOfDef(kind, i),
                      keepAlivePromises |->
                        modCtx.keepAlivePromises \o KeepAlivesOfDef(kind, i)])
                /\ managed' = managed \o SandboxFns(kind, i)
                /\ alive' = alive \cup Range(SandboxFns(kind, i))
                /\ keepAlive' = IF KeepAlivesOfDef(kind, i) # <<>>
                                THEN [keepAlive EXCEPT ![i] = "pending"]
                                ELSE keepAlive
                /\ UNCHANGED <<pc, thrown, thrownAt>>
  /\ UNCHANGED <<modules, evalCalls, evalError, hookLog, allPromises, settled,
                 result, returns, guestVars, timerVars, disposeLog, scopeDisposals,
                 fetchOps, useAfterDispose>>
  /\ UNCHANGED extVars

\* main.ts:70: every def returned; the script is handed to vm.evalCodeAsync
\* and the guest runs its top-level code.
EvalCode ==
  /\ pc = "defs"
  /\ Len(defLog) = Len(modules)
  /\ pc' = "eval"
  /\ evalCalls' = evalCalls + 1
  /\ frame' = [kind |-> "script", timer |-> 0]
  /\ UNCHANGED <<modules, loadedModuleCtx, defLog, evalError, hookLog, allPromises,
                 settled, thrown, thrownAt, result, returns, jobs, nextJob, jobLog, budget,
                 timerVars, scopeVars, keepAlive, fetchOps, useAfterDispose>>
  /\ UNCHANGED extVars

\* An error result that is not looked at.
ResultErrorIgnored == FALSE

\* main.ts:72, result.error of the eval result.
ResultError == evalError

\* main.ts:70-79: the eval result is managed by the scope; an error result
\* is dumped and thrown, otherwise the first drain of the job queue starts.
AfterEval ==
  /\ pc = "evalAwait"
  /\ frame.kind = "none"
  /\ managed' = Append(managed, EvalResultH)
  /\ alive' = alive \cup {EvalResultH}
  /\ IF ResultError THEN Throw("GuestError") ELSE pc' = "drain1" /\ UNCHANGED <<thrown, thrownAt>>
  /\ UNCHANGED <<modules, loadedModuleCtx, defLog, evalCalls, evalError, hookLog,
                 allPromises, settled, result, returns, guestVars, timerVars,
                 disposeLog, scopeDisposals, keepAlive, fetchOps, useAfterDispose>>
  /\ UNCHANGED extVars

DrainStates == {"drain1", "pumpDrain", "finalDrain"}

\* runtime.executePendingJobs (main.ts:76, 98, 112): the next pending job runs.
RunJob ==
  /\ pc \in DrainStates
  /\ frame.kind = "none"
  /\ jobs # <<>>
  /\ frame' = [kind |-> "job", timer |-> 0]
  /\ jobs' = Tail(jobs)
  /\ jobLog' = Append(jobLog, Head(jobs))
  /\ UNCHANGED <<runVars, nextJob, budget, timerVars, scopeVars, keepAlive, fetchOps,
                 useAfterDispose>>
  /\ UNCHANGED extVars

\* Where runCode goes when a drain found the job queue empty.
AfterDrain(at) ==
  CASE at = "drain1" -> "hooks"
    [] at = "pumpDrain" -> "pumpYield"
    [] at = "finalDrain" -> "teardown"

\* runtime.executePendingJobs returned without error.
DrainDone ==
  /\ pc \in DrainStates
  /\ frame.kind = "none"
  /\ jobs = <<>>
  /\ pc' = AfterDrain(pc)
  /\ UNCHANGED <<modules, loadedModuleCtx, defLog, evalCalls, evalError, hookLog,
                 allPromises, settled, thrown, thrownAt, result, returns, guestVars, timerVars,
                 scopeVars, keepAlive, fetchOps, useAfterDispose>>
  /\ UNCHANGED extVars

\* ------------------------------------------------------ timers module
\* The state of the active timers module's closure (part_005:39-48), with
\* its keep-alive promise and the handles that are alive, as one record.
TimerState ==
  [timers |-> timers,
   hostTimers |-> hostTimers,
   activeTimerCount |-> activeTimerCount,
   resolveKeepAlive |-> resolveKeepAlive,
   isCleaningUp |-> isCleaningUp,
   promise |-> IF ActiveTimers = 0 THEN "none" ELSE keepAlive[ActiveTimers],
   alive |-> alive]

\* The handles a TimerInfo holds: the dup of the callback and of each
\* argument (part_005:146-147).
TimerHandles(info) == {info.callback} \cup Range(info.args)

\* part_005:111-118, the resolve function the after-script hook installs:
\* every timer still in the table is cleared, then the promise is resolved.
WrappedResolve(s) ==
  [s EXCEPT !.isCleaningUp = TRUE,
            !.timers = <<>>,
            !.hostTimers = @ \ DOMAIN s.timers,
            !.alive = @ \ UNION {TimerHandles(s.timers[k]) : k \in DOMAIN s.timers},
            !.activeTimerCount = @ - Cardinality(DOMAIN s.timers),
            !.promise = "fulfilled"]

\* A checkCanResolve that does not look at the count.
checkCanResolveAnyCount(s) ==
  IF s.resolveKeepAlive # "null"
  THEN [(IF s.resolveKeepAlive = "wrapped"
         THEN WrappedResolve(s)
         ELSE [s EXCEPT !.promise = "fulfilled"])
        EXCEPT !.resolveKeepAlive = "null"]
  ELSE s

\* part_005:53-58
checkCanResolve(s) ==
  IF s.activeTimerCount = 0 /\ s.resolveKeepAlive # "null"
  THEN [(IF s.resolveKeepAlive = "wrapped"
         THEN WrappedResolve(s)
         ELSE [s EXCEPT !.promise = "fulfilled"])
        EXCEPT !.resolveKeepAlive = "null"]
  ELSE s

\* A clearTimer that removes the timer and leaves the accounting alone.
clearTimerNoAccounting(s, id) ==
  IF id \notin DOMAIN s.timers
  THEN s
  ELSE [s EXCEPT !.timers = [k \in DOMAIN s.timers \ {id} |-> s.timers[k]],
                 !.hostTimers = @ \ {id},
                 !.alive = @ \ TimerHandles(s.timers[id])]

\* A clearTimer that leaves the host timer scheduled.
clearTimerKeepsHostTimer(s, id) ==
  IF id \notin DOMAIN s.timers
  THEN s
  ELSE checkCanResolve(
         [s EXCEPT !.timers = [k \in DOMAIN s.timers \ {id} |-> s.timers[k]],
                   !.alive = @ \ TimerHandles(s.timers[id]),
                   !.activeTimerCount = @ - 1])

\* A clearTimer that does the accounting for an id that is not in the table.
clearTimerUnknownId(s, id) ==
  IF id \notin DOMAIN s.timers
  THEN checkCanResolve([s EXCEPT !.activeTimerCount = @ - 1])
  ELSE checkCanResolve(
         [s EXCEPT !.timers = [k \in DOMAIN s.timers \ {id} |-> s.timers[k]],
                   !.hostTimers = @ \ {id},
                   !.alive = @ \ TimerHandles(s.timers[id]),
                   !.activeTimerCount = @ - 1])

\* part_005:83-101
clearTimer(s, id) ==
  IF id \notin DOMAIN s.timers
  THEN s
  ELSE checkCanResolve(
         [s EXCEPT !.timers = [k \in DOMAIN s.timers \ {id} |-> s.timers[k]],
                   !.hostTimers = @ \ {id},
                   !.alive = @ \ TimerHandles(s.timers[id]),
                   !.activeTimerCount = @ - 1])

\* part_005:104-120, the after-script hook of the timers module.
TimersHook(s) ==
  LET c == checkCanResolve(s)
  IN IF c.resolveKeepAlive # "null"
     THEN [c EXCEPT !.resolveKeepAlive = "wrapped"]
     ELSE c

\* The closure state and promise of the active timers module become s.
SetTimerState(s) ==
  /\ timers' = s.timers
  /\ hostTimers' = s.hostTimers
  /\ activeTimerCount' = s.activeTimerCount
  /\ resolveKeepAlive' = s.resolveKeepAlive
  /\ isCleaningUp' = s.isCleaningUp
  /\ alive' = s.alive
  /\ keepAlive' = IF ActiveTimers = 0 THEN keepAlive
                  ELSE [keepAlive EXCEPT ![ActiveTimers] = s.promise]

\* ------------------------------------------------- hooks and the pump
\* Hooks that also run as cleanup when the scope body threw.
HooksAlways == pc = "hooks" \/ (pc = "teardown" /\ thrown # "none" /\ scopeDisposals = 0)

\* Whether runCode invokes the after-script hooks once the first drain is
\* through (main.ts:72-86: only in the else branch, after the drain).
HooksPhase == pc = "hooks"

\* A hook whose exception is not propagated.
HookNeverThrows(h) == FALSE

\* main.ts:84, afterScriptCallback() throws.
HookThrows(h) == h.kind = "throws"

\* console.ts:272-274, the hook of a console module: eventHandler.onFinish
\* is called with the entries recorded so far.
onFinishHook(h) ==
  IF h.kind = "console"
  THEN Append(onFinishCalls, [mod |-> h.mod, entries |-> entries[h.mod]])
  ELSE onFinishCalls

\* ctx.keepAlivePromises.push(promise) by the module m (its context is
\* _mod_authoring.ts:12-18): a new pending promise is appended.
PushKeepAlive(m, by) ==
  LET id == Len(keepAlive) + 1
  IN /\ loadedModuleCtx' = [loadedModuleCtx EXCEPT ![m].keepAlivePromises = Append(@, id)]
     /\ keepAlive' = Append(keepAlive, "pending")
     /\ pushLog' = Append(pushLog, [id |-> id, at |-> pc, by |-> by])

\* main.ts:82-86: the next after-script hook, in module order and, within a
\* module, in registration order.
RunHook ==
  /\ HooksPhase
  /\ Len(hookLog) < Len(AllHooks)
  /\ LET h == AllHooks[Len(hookLog) + 1]
     IN /\ hookLog' = Append(hookLog, h)
        /\ CASE HookThrows(h) ->
                  /\ Throw("HookError")
                  /\ UNCHANGED <<timers, hostTimers, activeTimerCount, resolveKeepAlive,
                                 isCleaningUp, alive, keepAlive>>
             [] h.kind = "timers" /\ h.mod = ActiveTimers ->
                  /\ SetTimerState(TimersHook(TimerState))
                  /\ UNCHANGED <<pc, thrown, thrownAt>>
             [] h.kind = "timers" /\ h.mod # ActiveTimers ->
                  \* a timers module whose globals were overwritten: no timer
                  \* was ever registered with it, its promise resolves here
                  /\ keepAlive' = [keepAlive EXCEPT ![h.mod] = "fulfilled"]
                  /\ UNCHANGED <<timers, hostTimers, activeTimerCount, resolveKeepAlive,
                                 isCleaningUp, alive, pc, thrown, thrownAt>>
             [] h.kind = "push" ->
                  UNCHANGED <<timers, hostTimers, activeTimerCount, resolveKeepAlive,
                              isCleaningUp, alive, pc, thrown, thrownAt>>
             [] OTHER ->
                  UNCHANGED <<timers, hostTimers, activeTimerCount, resolveKeepAlive,
                              isCleaningUp, alive, keepAlive, pc, thrown, thrownAt>>
        /\ IF h.kind = "push"
           THEN PushKeepAlive(h.mod, "hook")
           ELSE UNCHANGED <<loadedModuleCtx, pushLog>>
  /\ UNCHANGED <<modules, defLog, evalCalls, evalError, allPromises,
                 settled, result, returns, guestVars, nextTimerId, timerCalls, created, fireCount,
                 clearedByGuest, managed, disposeLog, scopeDisposals, fetchOps,
                 useAfterDispose>>
  /\ onFinishCalls' = onFinishHook(AllHooks[Len(hookLog) + 1])
  /\ UNCHANGED <<callbackThrew, delayVars, marshalVars, entries, guestErrors, cageVars, consoleVars>>

\* A snapshot taken before the script is evaluated: what the defs appended.
KeepAliveSnapshotOfDefs ==
  Flatten([k \in 1..Len(loadedModuleCtx) |-> KeepAlivesOfDef(modules[k], k)])

\* main.ts:89, the promises runCode waits for.
KeepAliveSnapshot ==
  Flatten([k \in 1..Len(loadedModuleCtx) |-> loadedModuleCtx[k].keepAlivePromises])

\* main.ts:89-94: every hook ran; the keep-alive promises are collected and
\* the pump loop is entered when there is one.
Snapshot ==
  /\ HooksPhase
  /\ Len(hookLog) = Len(AllHooks)
  /\ allPromises' = KeepAliveSnapshot
  /\ settled' = FALSE
  /\ pc' = IF KeepAliveSnapshot = <<>> THEN "finalDrain" ELSE "pumpDrain"
  /\ UNCHANGED <<modules, loadedModuleCtx, defLog, evalCalls, evalError, hookLog,
                 thrown, thrownAt, result, returns, guestVars, timerVars, scopeVars, keepAlive,
                 fetchOps, useAfterDispose>>
  /\ UNCHANGED extVars

\* A Promise.all that ignores rejections.
RejectionsIgnored == FALSE

\* main.ts:94, the state of Promise.all(allPromises).
AnyRejected == \E k \in 1..Len(allPromises) : keepAlive[allPromises[k]] = "rejected"

\* Promise.race in place of Promise.all: one fulfilled promise is enough.
AnyFulfilled ==
  allPromises = <<>> \/ \E k \in 1..Len(allPromises) : keepAlive[allPromises[k]] = "fulfilled"

\* main.ts:94, Promise.all(allPromises) is fulfilled.
AllFulfilled == \A k \in 1..Len(allPromises) : keepAlive[allPromises[k]] = "fulfilled"

ModuleCompletionPending == ~AnyRejected /\ ~AllFulfilled

\* main.ts:96-108: the await of Promise.race returns. A rejected keep-alive
\* rejects moduleCompletion and the race; when all are fulfilled settled is
\* true and the loop ends; otherwise the next iteration drains again.
PumpResume ==
  /\ pc = "pumpYield"
  /\ frame.kind = "none"
  /\ IF AnyRejected
     THEN Throw("KeepAliveRejection") /\ UNCHANGED settled
     ELSE /\ settled' = AllFulfilled
          /\ pc' = IF AllFulfilled THEN "finalDrain" ELSE "pumpDrain"
          /\ UNCHANGED <<thrown, thrownAt>>
  /\ UNCHANGED <<modules, loadedModuleCtx, defLog, evalCalls, evalError, hookLog,
                 allPromises, result, returns, guestVars, timerVars, scopeVars,
                 keepAlive, fetchOps, useAfterDispose>>
  /\ UNCHANGED extVars

\* ----------------------------------------------------------- teardown
\* Scope.dispose: the disposables that are still alive are disposed in
\* reverse order of registration.
DisposeOrder(m) == SelectSeq(Reverse(m), LAMBDA h : h \in alive)

\* Guest handles that are alive and that the scope does not own.
Leaked == alive \ Range(managed)

\* Whether disposing the scope can throw: the engine may abort when the
\* runtime is freed while guest values are still referenced from the host.
DisposeOutcomes == IF Leaked = {} THEN {FALSE} ELSE {FALSE, TRUE}

\* Scope.withScopeAsync (main.ts:52): the body returned or threw and the
\* scope is disposed. An exception of the disposal is what the scope throws
\* when the body threw nothing.
ScopeDispose ==
  /\ pc = "teardown"
  /\ frame.kind = "none"
  /\ disposeLog' = disposeLog \o DisposeOrder(managed)
  /\ alive' = alive \ Range(managed)
  /\ scopeDisposals' = scopeDisposals + 1
  /\ pc' = "settle"
  /\ \E fails \in DisposeOutcomes :
       IF fails /\ thrown = "none"
       THEN thrown' = "DisposeError" /\ thrownAt' = pc
       ELSE UNCHANGED <<thrown, thrownAt>>
  /\ UNCHANGED <<modules, loadedModuleCtx, defLog, evalCalls, evalError, hookLog,
                 allPromises, settled, result, returns, guestVars, timerVars,
                 managed, keepAlive, fetchOps, useAfterDispose>>
  /\ UNCHANGED extVars

\* main.ts:119-123: runCode's promise is fulfilled with the result.
Return ==
  /\ pc = "settle"
  /\ result' = IF thrown = "none" THEN OkResult ELSE CatchResult(thrown)
  /\ returns' = returns + 1
  /\ pc' = "returned"
  /\ UNCHANGED <<modules, loadedModuleCtx, defLog, evalCalls, evalError, hookLog,
                 allPromises, settled, thrown, thrownAt, guestVars, timerVars, scopeVars,
                 keepAlive, fetchOps, useAfterDispose>>
  /\ UNCHANGED extVars

\* ---------------------------------------------------------- the guest
NoFrame == [kind |-> "none", timer |-> 0]

\* Guest code is executing and may call one more host function.
GuestMayCall == frame.kind # "none" /\ budget > 0

TimerTypes == {"timeout", "interval"}

\* A counter that is not advanced when an id is issued.
SameTimerId(n) == n

\* part_005:142 and 188, nextTimerId++: the counter after an id was issued.
NextTimerId(n) == n + 1

\* part_005:123-167 (setTimeoutFn) and part_005:170-212 (setIntervalFn):
\* the guest calls setTimeout or setInterval with a function, a delay and
\* NumArgs further arguments.
GuestSetTimer(type) ==
  /\ GuestMayCall
  /\ ActiveTimers # 0
  /\ budget' = budget - 1
  /\ LET num == <<"num", Len(managed) + 1, 0>>
         id == nextTimerId
         info == [type |-> type,
                  callback |-> <<"cb", id, 0>>,
                  args |-> [k \in 1..NumArgs |-> <<"arg", id, k>>]]
     IN /\ managed' = Append(managed, num)
        /\ timerCalls' = Append(timerCalls,
                             [type |-> type, id |-> IF isCleaningUp THEN 0 ELSE id])
        /\ IF isCleaningUp
           THEN /\ alive' = alive \cup {num}
                /\ UNCHANGED <<timers, hostTimers, nextTimerId, activeTimerCount,
                               created, fireCount>>
           ELSE /\ nextTimerId' = NextTimerId(nextTimerId)
                /\ activeTimerCount' = activeTimerCount + 1
                /\ timers' = (id :> info) @@ timers
                /\ hostTimers' = hostTimers \cup {id}
                /\ created' = (id :> type) @@ created
                /\ fireCount' = (id :> 0) @@ fireCount
                /\ alive' = alive \cup TimerHandles(info) \cup {num}
  /\ UNCHANGED <<runVars, jobs, nextJob, jobLog, frame, isCleaningUp, resolveKeepAlive,
                 clearedByGuest, disposeLog, scopeDisposals, keepAlive, fetchOps,
                 useAfterDispose>>
  /\ UNCHANGED extVars

\* Arguments of clearTimeout/clearInterval that are not numbers: no
\* argument, null, undefined, a string.
NonNumberArgs ==
  {[type |-> t, value |-> 0] : t \in {"omitted", "null", "undefined", "string"}}

\* part_005:215-240, the body of clearTimeoutFn and of clearIntervalFn: an
\* omitted argument returns at once (216-218); otherwise the argument is
\* dumped and clearTimer is called when the dumped value is a number.
clearTimeoutFn(s, arg) ==
  IF arg.type = "omitted"
  THEN s
  ELSE IF arg.type = "number" THEN clearTimer(s, arg.value) ELSE s

\* The arguments the guest passes to clearTimeout/clearInterval: a
\* non-number, an id it was given, or 0, which is never issued.
ClearArgs ==
  NonNumberArgs \cup {[type |-> "number", value |-> n] : n \in 0..(nextTimerId - 1)}

\* part_005:215-240 (clearTimeoutFn, clearIntervalFn): the guest calls
\* clearTimeout or clearInterval.
GuestClearTimer(id) ==
  /\ GuestMayCall
  /\ ActiveTimers # 0
  /\ budget' = budget - 1
  /\ SetTimerState(clearTimeoutFn(TimerState, id))
  /\ clearedByGuest' = IF id.type = "number" /\ id.value \in DOMAIN timers
                       THEN clearedByGuest \cup {id.value}
                       ELSE clearedByGuest
  /\ UNCHANGED <<runVars, jobs, nextJob, jobLog, frame, nextTimerId, timerCalls, created, fireCount,
                 managed, disposeLog, scopeDisposals, fetchOps, useAfterDispose>>
  /\ UNCHANGED extVars

\* console.ts:105-114 (createLogMethod): the guest calls console.log or
\* another logging method; recordEntry (96-102) appends an entry.
GuestConsoleLog ==
  /\ GuestMayCall
  /\ ActiveConsole # 0
  /\ budget' = budget - 1
  /\ entries' = [entries EXCEPT ![ActiveConsole] = Append(@, Len(@) + 1)]
  /\ UNCHANGED <<runVars, jobs, nextJob, jobLog, frame, timerVars, scopeVars, keepAlive,
                 fetchOps, useAfterDispose, callbackThrew, delayVars, marshalVars,
                 onFinishCalls, guestErrors, cageVars, consoleVars, pushLog>>

\* A host Error, and the guest error made of it.
HostError(name, message) == [name |-> name, message |-> message, world |-> "host"]

\* What the def of a sandbox function does: it throws, or returns a value.
DefOutcomes ==
  {[threw |-> TRUE, value |-> H("undefined", 0, <<>>, <<>>)]}
  \cup {[threw |-> FALSE, value |-> v] :
          v \in {H("number", 1, <<>>, <<>>),
                 H("function", 0, <<>>, <<>>),
                 H("array", 0, <<>>, <<H("function", 0, <<>>, <<>>)>>)}}

\* _mod_authoring.ts:29-36, transformedFunc: the def is called with the
\* dumped arguments and its result is marshalled; nothing is caught.
transformedFunc(o) ==
  IF o.threw
  THEN [threw |-> TRUE, error |-> HostError("TypeError", "def failed")]
  ELSE IF marshalToVM(o.value).threw
       THEN [threw |-> TRUE, error |-> HostError("Error", "Cannot marshal function to VM")]
       ELSE [threw |-> FALSE, error |-> HostError("", "")]

\* A host function whose exception unwinds into runCode.
alwaysPropagates == TRUE

\* _mod_authoring.ts:42, vm.newFunction: the function the guest calls wraps
\* the host function; what the host function throws is thrown in the guest
\* as an error with the same name and message, and does not unwind the
\* host's caller.
newFunctionPropagates == FALSE

errorToHandle(e) == [name |-> e.name, message |-> e.message, world |-> "guest"]

\* _mod_authoring.ts:28-39: the guest calls a function installed with
\* defineSandboxFn.
GuestCallSandboxFn(o) ==
  /\ GuestMayCall
  /\ SandboxFnLoaded
  /\ budget' = budget - 1
  /\ LET r == transformedFunc(o)
         h == <<"marshalled", Len(managed) + 1, 0>>
     IN  IF r.threw
         THEN IF newFunctionPropagates
              THEN /\ Throw("HostError")
                   /\ frame' = NoFrame
                   /\ UNCHANGED <<guestErrors, managed, alive>>
              ELSE /\ guestErrors' = Append(guestErrors, errorToHandle(r.error))
                   /\ UNCHANGED <<pc, thrown, thrownAt, frame, managed, alive>>
         ELSE /\ managed' = Append(managed, h)
              /\ alive' = alive \cup {h}
              /\ UNCHANGED <<pc, thrown, thrownAt, frame, guestErrors>>
  /\ UNCHANGED <<modules, loadedModuleCtx, defLog, evalCalls, evalError, hookLog,
                 allPromises, settled, result, returns, jobs, nextJob, jobLog, timerVars,
                 disposeLog, scopeDisposals, keepAlive, fetchOps, useAfterDispose,
                 callbackThrew, delayVars, marshalVars, entries, onFinishCalls, cageVars, consoleVars, pushLog>>

\* Guest code attaches a reaction to a settled guest promise (or awaits):
\* a promise job is enqueued.
GuestEnqueueJob ==
  /\ GuestMayCall
  /\ budget' = budget - 1
  /\ jobs' = Append(jobs, nextJob)
  /\ nextJob' = nextJob + 1
  /\ UNCHANGED <<runVars, jobLog, frame, timerVars, scopeVars, keepAlive, fetchOps,
                 useAfterDispose>>
  /\ UNCHANGED extVars

\* fetch.ts:362-393: the guest calls fetch; the guest promise is scope
\* managed and the host request is started. Nothing is appended to
\* ctx.keepAlivePromises.
GuestFetch ==
  /\ GuestMayCall
  /\ FetchLoaded
  /\ budget' = budget - 1
  /\ LET p == <<"promise", Len(managed) + 1, 0>>
     IN /\ managed' = Append(managed, p)
        /\ alive' = alive \cup {p}
        /\ fetchOps' = fetchOps \cup {p}
  /\ UNCHANGED <<runVars, jobs, nextJob, jobLog, frame, timerVars, disposeLog,
                 scopeDisposals, keepAlive, useAfterDispose>>
  /\ UNCHANGED extVars

\* A host timer callback that an exception of the guest callback leaves
\* before it reaches clearTimer.
executeCallbackRethrows(threw) == ~threw

\* part_005:64-79, executeCallback: callFunction reports a guest exception
\* in its result, which is disposed, and the try/catch keeps anything thrown
\* from the host timer callback, so executeCallback returns to its caller
\* whether or not the guest callback threw.
executeCallbackReturns(threw) == TRUE

\* The guest frame ends, by returning or by throwing.
\*  script: vm.evalCodeAsync resolves with the value or the error (main.ts:70);
\*  job:    a throwing job is what executePendingJobs reports (main.ts:77, 99, 113);
\*  timer:  callFunction returns, the result is disposed; the host callback
\*          of a timeout then calls clearTimer (part_005:161-164).
GuestEnd(threw) ==
  /\ frame.kind # "none"
  /\ frame' = NoFrame
  /\ CASE frame.kind = "script" ->
            /\ pc' = "evalAwait"
            /\ evalError' = threw
            /\ UNCHANGED <<thrown, thrownAt, timers, hostTimers, activeTimerCount, resolveKeepAlive,
                           isCleaningUp, alive, keepAlive>>
       [] frame.kind = "job" ->
            /\ IF threw THEN Throw("GuestError") ELSE UNCHANGED <<pc, thrown, thrownAt>>
            /\ UNCHANGED <<evalError, timers, hostTimers, activeTimerCount,
                           resolveKeepAlive, isCleaningUp, alive, keepAlive>>
       [] frame.kind = "timer" ->
            /\ IF created[frame.timer] = "timeout" /\ executeCallbackReturns(threw)
               THEN SetTimerState(clearTimer(TimerState, frame.timer))
               ELSE UNCHANGED <<timers, hostTimers, activeTimerCount, resolveKeepAlive,
                                isCleaningUp, alive, keepAlive>>
            /\ UNCHANGED <<pc, thrown, thrownAt, evalError>>
  /\ UNCHANGED <<modules, loadedModuleCtx, defLog, evalCalls, hookLog, allPromises,
                 settled, result, returns, jobs, nextJob, jobLog, budget, nextTimerId,
                 timerCalls, created, fireCount, clearedByGuest, managed, disposeLog,
                 scopeDisposals, fetchOps, useAfterDispose>>
  /\ callbackThrew' = (callbackThrew \/ (frame.kind = "timer" /\ threw))
  /\ UNCHANGED <<delayVars, marshalVars, bridgeVars, cageVars, consoleVars, pushLog>>

GuestReturn == GuestEnd(FALSE)

GuestThrow == GuestEnd(TRUE)

\* --------------------------------------------------------- host events
\* Host macrotasks run while runCode is suspended in the race of the pump
\* loop and moduleCompletion is pending (main.ts:104-107), and after
\* runCode returned.
HostMayRun ==
  /\ frame.kind = "none"
  /\ \/ pc = "pumpYield" /\ ModuleCompletionPending
     \/ pc = "returned"

\* part_005:161-164 and 207-209: a host timer fires. executeCallback
\* (part_005:61-80) calls the guest callback unless isCleaningUp; a timeout
\* then clears itself.
TimerFire(id) ==
  /\ HostMayRun
  /\ id \in hostTimers
  /\ IF ~isCleaningUp /\ VmH \in alive
     THEN \* the guest callback is entered
          /\ fireCount[id] < (IF created[id] = "interval" THEN MaxIntervalFires ELSE 1)
          /\ frame' = [kind |-> "timer", timer |-> id]
          /\ fireCount' = [fireCount EXCEPT ![id] = @ + 1]
          /\ hostTimers' = IF created[id] = "timeout" THEN hostTimers \ {id}
                           ELSE hostTimers
          /\ UNCHANGED <<timers, activeTimerCount, resolveKeepAlive, isCleaningUp, alive,
                         keepAlive, useAfterDispose>>
     ELSE \* no guest code runs: either executeCallback returns at once, or
          \* callFunction is called on a disposed context
          /\ useAfterDispose' = (useAfterDispose \/ ~isCleaningUp)
          /\ IF created[id] = "timeout"
             THEN SetTimerState(clearTimer(TimerState, id))
             ELSE UNCHANGED <<timers, hostTimers, activeTimerCount, resolveKeepAlive,
                              isCleaningUp, alive, keepAlive>>
          /\ UNCHANGED <<frame, fireCount>>
  /\ UNCHANGED <<runVars, jobs, nextJob, jobLog, budget, nextTimerId, timerCalls,
                 created, clearedByGuest, managed, disposeLog, scopeDisposals, fetchOps>>
  /\ UNCHANGED extVars

\* Where a host promise reaction (a microtask) can run: at every await of
\* runCode and after it returned.
MicrotaskMayRun ==
  /\ frame.kind = "none"
  /\ pc \in {"evalAwait", "pumpYield", "teardown", "returned"}

\* fetch.ts:382-390: the host fetch settles; its then/catch callback builds
\* the guest value (scope managed) and settles the guest promise, whose
\* reaction becomes a pending job.
FetchComplete(p) ==
  /\ MicrotaskMayRun
  /\ p \in fetchOps
  /\ fetchOps' = fetchOps \ {p}
  /\ IF VmH \in alive
     THEN LET v == <<"settleValue", Len(managed) + 1, 0>>
          IN /\ managed' = Append(managed, v)
             /\ alive' = alive \cup {v}
             /\ jobs' = Append(jobs, nextJob)
             /\ nextJob' = nextJob + 1
             /\ UNCHANGED useAfterDispose
     ELSE /\ useAfterDispose' = TRUE
          /\ UNCHANGED <<managed, alive, jobs, nextJob>>
  /\ UNCHANGED <<runVars, jobLog, frame, budget, timerVars, disposeLog, scopeDisposals,
                 keepAlive>>
  /\ UNCHANGED extVars

\* The host promise a "keepAlive" module registered settles.
KeepAliveSettle(i, how) ==
  /\ HostMayRun
  /\ i \in 1..Len(modules)
  /\ modules[i] = "keepAlive"
  /\ keepAlive[i] = "pending"
  /\ keepAlive' = [keepAlive EXCEPT ![i] = how]
  /\ UNCHANGED <<runVars, guestVars, timerVars, scopeVars, fetchOps, useAfterDispose>>
  /\ UNCHANGED extVars

\* ------------------------------------------------------- specification
Next ==
  \/ Start
  \/ DefModule
  \/ EvalCode
  \/ AfterEval
  \/ RunJob
  \/ DrainDone
  \/ RunHook
  \/ Snapshot
  \/ PumpResume
  \/ ScopeDispose
  \/ Return
  \/ \E type \in TimerTypes : GuestSetTimer(type)
  \/ \E id \in ClearArgs : GuestClearTimer(id)
  \/ GuestEnqueueJob
  \/ GuestFetch
  \/ GuestReturn
  \/ GuestThrow
  \/ \E id \in hostTimers : TimerFire(id)
  \/ \E p \in fetchOps : FetchComplete(p)
  \/ \E i \in 1..Len(modules), how \in {"fulfilled", "rejected"} : KeepAliveSettle(i, how)

Spec == Init /\ [][Next]_vars

\* setTimeout or setInterval is called with some delay argument.
DelayInit ==
  /\ modules = <<"timers">>
  /\ Fresh
  /\ delay \in DelayArgs
  /\ delayFor = "none"
  /\ delayMs = Val("unset")
  /\ NoMarshal
  /\ NoEvals
  /\ NoConsole
  /\ NoPush

\* part_005:134-140 (setTimeout) and 180-186 (setInterval): the function
\* coerces its delay argument.
SetDelayMs(type) ==
  /\ delayFor = "none"
  /\ delayFor' = type
  /\ delayMs' = CoerceDelay(delay)
  /\ UNCHANGED <<runVars, guestVars, timerVars, scopeVars, keepAlive, fetchOps,
                 useAfterDispose, callbackThrew, delay, marshalVars, bridgeVars, cageVars, consoleVars, pushLog>>

DelayNext == \E type \in TimerTypes : SetDelayMs(type)

DelaySpec == DelayInit /\ [][DelayNext]_vars

\* The guest calls the host function of the pusher module, which appends a
\* promise to its context's keepAlivePromises.
GuestPushKeepAlive ==
  /\ GuestMayCall
  /\ ActivePusher # 0
  /\ budget' = budget - 1
  /\ PushKeepAlive(ActivePusher, "guest")
  /\ UNCHANGED <<modules, pc, defLog, evalCalls, evalError, hookLog, allPromises, settled,
                 thrown, thrownAt, result, returns, jobs, nextJob, jobLog, frame, timerVars,
                 scopeVars, fetchOps, useAfterDispose, callbackThrew, delayVars, marshalVars,
                 bridgeVars, cageVars, consoleVars>>

\* The promises appended after def.
Pushed == {pushLog[k].id : k \in 1..Len(pushLog)}

\* The host settles a promise a pusher module appended.
PushedSettle(id, how) ==
  /\ HostMayRun
  /\ id \in Pushed
  /\ keepAlive[id] = "pending"
  /\ keepAlive' = [keepAlive EXCEPT ![id] = how]
  /\ UNCHANGED <<runVars, guestVars, timerVars, scopeVars, fetchOps, useAfterDispose>>
  /\ UNCHANGED extVars

\* Evaluations of MaxModules modules whose first is a pusher module.
PushInit ==
  /\ modules \in {<<k>> \o m : k \in PushKinds,
                                m \in [1..(MaxModules - 1) -> ModuleKinds \cup PushKinds]}
  /\ Fresh
  /\ NoDelay
  /\ NoMarshal
  /\ NoEvals
  /\ NoConsole
  /\ NoPush

PushNext ==
  \/ Next
  \/ GuestPushKeepAlive
  \/ \E id \in Pushed, how \in {"fulfilled", "rejected"} : PushedSettle(id, how)

PushSpec == PushInit /\ [][PushNext]_vars

\* Evaluations of MaxModules modules whose first is a console module or a
\* module with a defineSandboxFn function.
BridgeInit ==
  /\ modules \in {<<k>> \o m : k \in BridgeKinds,
                                m \in [1..(MaxModules - 1) -> ModuleKinds \cup BridgeKinds]}
  /\ Fresh
  /\ NoDelay
  /\ NoMarshal
  /\ NoEvals
  /\ NoConsole
  /\ NoPush

BridgeNext ==
  \/ Next
  \/ GuestConsoleLog
  \/ \E o \in DefOutcomes : GuestCallSandboxFn(o)

BridgeSpec == BridgeInit /\ [][BridgeNext]_vars

CageInit ==
  /\ modules = <<>>
  /\ Fresh
  /\ NoDelay
  /\ NoMarshal
  /\ NoEvals
  /\ NoConsole
  /\ NoPush

OtherVars ==
  <<runVars, guestVars, timerVars, scopeVars, keepAlive, fetchOps, useAfterDispose,
    callbackThrew, delayVars, marshalVars, bridgeVars, consoleVars, pushLog>>

\* The closure of the timers module (the first of CageModules) and of the
\* console module (the second) in call e.
TimersOf(e) == ClosureOf(e, 1)
ConsoleOf(e) == ClosureOf(e, 2)

\* main.ts:50-55: runCode is called; the call may overlap earlier ones.
CageRunCode(e) ==
  /\ evals[e].pc = "idle"
  /\ evals' = [evals EXCEPT ![e] = [@ EXCEPT !.pc = "defs",
                                               !.runtime = RuntimeFor(e),
                                               !.vm = VmFor(e),
                                               !.scope = ScopeFor(e)]]
  /\ actor' = e
  /\ UNCHANGED <<closures, OtherVars>>

\* main.ts:57-68: the def of the next module is invoked with a new module
\* context; the def declares and initialises the module's variables.
CageDef(e) ==
  /\ evals[e].pc = "defs"
  /\ Len(evals[e].loadedModuleCtx) < Len(CageModules)
  /\ LET i == Len(evals[e].loadedModuleCtx) + 1
     IN  /\ evals' = [evals EXCEPT ![e].loadedModuleCtx = Append(@, ModCtxFor(e, i))]
         /\ closures' = (ClosureOf(e, i) :> NewClosure) @@ closures
  /\ actor' = e
  /\ UNCHANGED OtherVars

\* main.ts:70: the script is evaluated.
CageEval(e) ==
  /\ evals[e].pc = "defs"
  /\ Len(evals[e].loadedModuleCtx) = Len(CageModules)
  /\ evals' = [evals EXCEPT ![e].pc = "eval"]
  /\ actor' = e
  /\ UNCHANGED <<closures, OtherVars>>

\* The number of host function calls the guests of the calls S have made.
RECURSIVE CallsMade(_)
CallsMade(S) ==
  IF S = {} THEN 0
  ELSE LET e == CHOOSE x \in S : TRUE IN evals[e].calls + CallsMade(S \ {e})

\* Guest code of call e is running: its script, or a timer callback while
\* runCode waits.
CageGuestRuns(e) ==
  /\ evals[e].pc \in {"eval", "wait"}
  /\ CallsMade(Evals) < MaxCalls

\* part_005:123-167: the guest of call e calls setTimeout and is given the
\* id.
CageSetTimeout(e) ==
  /\ CageGuestRuns(e)
  /\ LET c == closures[TimersOf(e)]
         id == IF c.isCleaningUp THEN 0 ELSE c.nextTimerId
     IN  /\ closures' =
              IF c.isCleaningUp
              THEN closures
              ELSE [closures EXCEPT ![TimersOf(e)] =
                      [c EXCEPT !.nextTimerId = @ + 1,
                                !.timers = @ \cup {id},
                                !.activeTimerCount = @ + 1]]
         /\ evals' = [evals EXCEPT ![e].calls = @ + 1, ![e].ids = Append(@, id)]
  /\ actor' = e
  /\ UNCHANGED OtherVars

\* console.ts:126-135: the guest of call e calls console.count() and the
\* handler is given the count.
CageConsoleCount(e) ==
  /\ CageGuestRuns(e)
  /\ LET c == closures[ConsoleOf(e)]
     IN  /\ closures' = [closures EXCEPT ![ConsoleOf(e)].counters = c.counters + 1]
         /\ evals' = [evals EXCEPT ![e].calls = @ + 1,
                                   ![e].counts = Append(@, c.counters + 1)]
  /\ actor' = e
  /\ UNCHANGED OtherVars

\* part_005:52-57, checkCanResolve, on the variables c.
CageCheckCanResolve(c) ==
  IF c.activeTimerCount = 0 /\ c.keepAlive = "pending"
  THEN [c EXCEPT !.keepAlive = "fulfilled", !.isCleaningUp = c.hookRan]
  ELSE c

\* main.ts:82-86: the script ended and the after-script hooks of call e
\* run: that of its timers module (part_005:104-120).
CageHooks(e) ==
  /\ evals[e].pc = "eval"
  /\ evals' = [evals EXCEPT ![e].pc = "wait"]
  /\ closures' = [closures EXCEPT ![TimersOf(e)] =
                     [CageCheckCanResolve(@) EXCEPT !.hookRan = TRUE]]
  /\ actor' = e
  /\ UNCHANGED OtherVars

\* part_005:161-164: a host timer of call e fires while runCode waits; the
\* timeout is cleared (83-101).
CageTimerFire(e, id) ==
  /\ evals[e].pc = "wait"
  /\ id \in closures[TimersOf(e)].timers
  /\ closures' = [closures EXCEPT ![TimersOf(e)] =
                     CageCheckCanResolve([@ EXCEPT !.timers = @ \ {id},
                                                   !.activeTimerCount = @ - 1])]
  /\ actor' = e
  /\ UNCHANGED <<evals, OtherVars>>

\* main.ts:89-119: the keep-alive promises of call e are fulfilled; the
\* scope is disposed and runCode returns.
CageReturn(e) ==
  /\ evals[e].pc = "wait"
  /\ closures[TimersOf(e)].keepAlive = "fulfilled"
  /\ evals' = [evals EXCEPT ![e].pc = "returned"]
  /\ actor' = e
  /\ UNCHANGED <<closures, OtherVars>>

CageNext ==
  \E e \in Evals :
    \/ CageRunCode(e)
    \/ CageDef(e)
    \/ CageEval(e)
    \/ CageSetTimeout(e)
    \/ CageConsoleCount(e)
    \/ CageHooks(e)
    \/ \E id \in 1..MaxCalls : CageTimerFire(e, id)
    \/ CageReturn(e)

CageSpec == CageInit /\ [][CageNext]_vars

\* The guest of an evaluation with the console module calls console
\* functions.
ConsoleInit ==
  /\ modules = <<"console">>
  /\ Fresh
  /\ NoDelay
  /\ NoMarshal
  /\ NoEvals
  /\ FreshConsole
  /\ NoPush

RestVars ==
  <<runVars, guestVars, timerVars, scopeVars, keepAlive, fetchOps, useAfterDispose,
    callbackThrew, delayVars, marshalVars, bridgeVars, cageVars, pushLog>>

\* The guest makes one more console call, or time passes.
ConsoleMayCall == Len(consoleCalls) + (now - 1) < MaxCalls

\* console.ts:126-135
ConsoleCount(arg) ==
  /\ ConsoleMayCall
  /\ LET label == LabelOf(arg)
         count == Get(counters, label, 0) + 1
     IN  /\ counters' = (label :> count) @@ counters
         /\ consoleCalls' = Called("count", label, Told(count))
  /\ UNCHANGED <<consoleTimers, groupDepth, now, RestVars>>

\* console.ts:137-141
ConsoleCountReset(arg) ==
  /\ ConsoleMayCall
  /\ counters' = countReset(counters, LabelOf(arg))
  /\ consoleCalls' = Called("countReset", LabelOf(arg), NotTold)
  /\ UNCHANGED <<consoleTimers, groupDepth, now, RestVars>>

\* console.ts:144-151
ConsoleTime(arg) ==
  /\ ConsoleMayCall
  /\ consoleTimers' = (LabelOf(arg) :> now) @@ consoleTimers
  /\ consoleCalls' = Called("time", LabelOf(arg), NotTold)
  /\ UNCHANGED <<counters, groupDepth, now, RestVars>>

\* console.ts:153-167: onTimeLog is told the duration when the start time
\* is truthy.
ConsoleTimeLog(arg) ==
  /\ ConsoleMayCall
  /\ LET label == LabelOf(arg)
         startTime == Get(consoleTimers, label, 0)
     IN  consoleCalls' = Called("timeLog", label,
                                IF startTime # 0 THEN Told(Duration(startTime)) ELSE NotTold)
  /\ UNCHANGED <<counters, consoleTimers, groupDepth, now, RestVars>>

\* console.ts:169-183: onTime is told the duration and the timer is
\* deleted when the start time is truthy.
ConsoleTimeEnd(arg) ==
  /\ ConsoleMayCall
  /\ LET label == LabelOf(arg)
         startTime == Get(consoleTimers, label, 0)
     IN  IF startTime # 0
         THEN /\ consoleTimers' = [l \in DOMAIN consoleTimers \ {label} |-> consoleTimers[l]]
              /\ consoleCalls' = Called("timeEnd", label, Told(Duration(startTime)))
         ELSE /\ consoleCalls' = Called("timeEnd", label, NotTold)
              /\ UNCHANGED consoleTimers
  /\ UNCHANGED <<counters, groupDepth, now, RestVars>>

\* console.ts:186-204: group and groupCollapsed
ConsoleGroup(collapsed) ==
  /\ ConsoleMayCall
  /\ groupDepth' = groupDepth + 1
  /\ consoleCalls' = Called("group", "", Told(IF collapsed THEN 1 ELSE 0))
  /\ UNCHANGED <<counters, consoleTimers, now, RestVars>>

\* console.ts:206-215
ConsoleGroupEnd ==
  /\ ConsoleMayCall
  /\ IF groupIsOpen(groupDepth)
     THEN /\ groupDepth' = groupDepth - 1
          /\ consoleCalls' = Called("groupEnd", "", Told(0))
     ELSE /\ consoleCalls' = Called("groupEnd", "", NotTold)
          /\ UNCHANGED groupDepth
  /\ UNCHANGED <<counters, consoleTimers, now, RestVars>>

\* A millisecond passes.
ClockTick ==
  /\ ConsoleMayCall
  /\ now' = now + 1
  /\ UNCHANGED <<counters, consoleTimers, groupDepth, consoleCalls, RestVars>>

ConsoleNext ==
  \/ \E arg \in LabelArgs : ConsoleCount(arg)
  \/ \E arg \in LabelArgs : ConsoleCountReset(arg)
  \/ \E arg \in LabelArgs : ConsoleTime(arg)
  \/ \E arg \in LabelArgs : ConsoleTimeLog(arg)
  \/ \E arg \in LabelArgs : ConsoleTimeEnd(arg)
  \/ \E collapsed \in BOOLEAN : ConsoleGroup(collapsed)
  \/ ConsoleGroupEnd
  \/ ClockTick

ConsoleSpec == ConsoleInit /\ [][ConsoleNext]_vars

\* marshalToVM is about to be called with some host value.
MarshalInit ==
  /\ modules = <<>>
  /\ Fresh
  /\ NoDelay
  /\ value \in HostValues(MaxDepth)
  /\ marshalled = NotMarshalled
  /\ guestPromise = NoPromise
  /\ unhandledRejection = FALSE
  /\ NoEvals
  /\ NoConsole
  /\ NoPush

\* marshalling.ts:13-93: marshalToVM(vm, scope, value) is called.  For a
\* host promise the guest promise starts pending (51-59).
MarshalToVM ==
  /\ marshalled = NotMarshalled
  /\ marshalled' = marshalToVM(value)
  /\ guestPromise' = IF value.t = "promise"
                     THEN [state |-> "pending", with |-> G("none", 0, <<>>, <<>>)]
                     ELSE guestPromise
  /\ UNCHANGED <<runVars, guestVars, timerVars, scopeVars, keepAlive, fetchOps,
                 useAfterDispose, callbackThrew, delayVars, value, unhandledRejection,
                 bridgeVars, cageVars, consoleVars, pushLog>>

\* The Error marshalToVM throws (marshalling.ts:89, 92).
MarshalError == H("error", 1, <<>>, <<>>)

\* marshalling.ts:52-58: the host promise settles and its reactions run.
\* then (53-55) marshals the result and resolves; whatever it throws, and
\* a rejection of the host promise, reaches catch (56-58), which marshals
\* the error and rejects.  What catch throws rejects the promise catch
\* returned, which has no reaction.
HostPromiseSettles ==
  /\ value.t = "promise"
  /\ guestPromise.state = "pending"
  /\ ~unhandledRejection
  /\ LET x == value.items[1]
         r == marshalToVM(x)
         e == marshalToVM(MarshalError)
     IN  IF value.keys[1] = "fulfil"
         THEN /\ guestPromise' = IF r.threw
                                 THEN [state |-> "rejected", with |-> e.handle]
                                 ELSE [state |-> "fulfilled", with |-> r.handle]
              /\ UNCHANGED unhandledRejection
         ELSE IF r.threw
              THEN /\ unhandledRejection' = TRUE
                   /\ UNCHANGED guestPromise
              ELSE /\ guestPromise' = [state |-> "rejected", with |-> r.handle]
                   /\ UNCHANGED unhandledRejection
  /\ UNCHANGED <<runVars, guestVars, timerVars, scopeVars, keepAlive, fetchOps,
                 useAfterDispose, callbackThrew, delayVars, value, marshalled, bridgeVars,
                 cageVars, consoleVars, pushLog>>

MarshalNext == MarshalToVM \/ HostPromiseSettles

MarshalSpec == MarshalInit /\ [][MarshalNext]_vars

\* Evaluations of MaxModules modules whose first is the timers module.
TimersInit ==
  /\ Init
  /\ Len(modules) = MaxModules
  /\ modules[1] = "timers"

\* The steps of runCode itself: an async function that is not suspended at
\* an await runs on, and the awaits of runCode resolve (the race of the pump
\* loop by its setTimeout(0), main.ts:104-107).
RunCodeStep ==
  \/ Start \/ DefModule \/ EvalCode \/ AfterEval \/ RunJob \/ DrainDone
  \/ RunHook \/ Snapshot \/ PumpResume \/ ScopeDispose \/ Return

\* runCode runs on, and guest code that is executing comes to an end.
Fairness ==
  /\ WF_vars(RunCodeStep)
  /\ WF_vars(GuestReturn \/ GuestThrow)

TimersSpec == TimersInit /\ [][Next]_vars /\ Fairness

\* ------------------------------------------------------------- claims
Returned == pc = "returned"

ReturnedOk == pc = "returned" /\ result.type = "ok"

\* The after-script hooks the loaded modules registered, as a set.
RegisteredHooks ==
  UNION {Range(HooksOfDef(modules[i], i)) : i \in 1..Len(loadedModuleCtx)}

\* C1: runCode settles its promise at most once, always by fulfilling it
\* with {type:'ok'} or {type:'error', err}; whatever step throws, the promise
\* is never rejected.
C1_ResultTotality ==
  /\ returns <= 1
  /\ result.type \in {"pending", "ok", "error"}
  /\ (pc = "returned") = (returns = 1)
  /\ (pc = "returned") = (result.type # "pending")
  /\ result.type = "ok" => thrown = "none" /\ result.err = "none"
  /\ result.type = "error" => thrown # "none" /\ result.err = thrown

\* C1 witness: a keep-alive promise rejected during the wait and runCode
\* returned the error result.
C1_Witness ==
  /\ pc = "returned"
  /\ thrownAt = "pumpYield"
  /\ result = [type |-> "error", err |-> "KeepAliveRejection"]

\* C2 (as claimed): once a module registered a keep-alive promise, runCode
\* does not return while a registered keep-alive promise is pending.
C2_Original ==
  pc = "returned" => \A i \in 1..Len(modules) : keepAlive[i] # "pending"

\* C2 (amended): runCode does not return {type:'ok'} while a keep-alive
\* promise registered before the wait set was computed is unsettled; every
\* one of them is fulfilled by then.
C2_KeepAliveCompleteness ==
  ReturnedOk =>
    /\ allPromises = KeepAliveSnapshot
    /\ \A i \in 1..Len(modules) :
         keepAlive[i] # "none" => i \in Range(allPromises) /\ keepAlive[i] = "fulfilled"

\* C2 witness: two keep-alive promises were awaited, one of them the timers
\* module's with a timer that fired during the wait, and runCode returned ok.
C2_Witness ==
  /\ ReturnedOk
  /\ Len(allPromises) = 2
  /\ \E i \in 1..Len(modules) : modules[i] = "keepAlive"
  /\ \E id \in DOMAIN fireCount : fireCount[id] = 1

\* C3: when runCode returns {type:'ok'}, every setTimeout call the guest
\* made during the run registered a timer whose callback was invoked, unless
\* the guest cleared it.
C3_TimeoutsFireBeforeOk ==
  ReturnedOk =>
    \A k \in 1..Len(timerCalls) :
      timerCalls[k].type = "timeout" =>
        /\ timerCalls[k].id # 0
        /\ \/ timerCalls[k].id \in clearedByGuest
           \/ fireCount[timerCalls[k].id] >= 1

\* C4: runCode does not return {type:'ok'} while a host asynchronous
\* operation started for the guest (a timer, a fetch) is still pending.
C4_AsyncCoveredByKeepAlive ==
  ReturnedOk => fetchOps = {} /\ hostTimers = {}

\* C5: after runCode returned no handle created during the evaluation is
\* alive, the handles the timers module duplicated included.
C5_NoHandleAliveAfterReturn ==
  pc = "returned" => alive = {}

\* C6: on every exit path the scope is disposed exactly once, before the
\* result is returned; it releases what it manages in reverse order of
\* registration, the context before the runtime.
C6_ScopeDisposedOnce ==
  /\ scopeDisposals <= 1
  /\ result.type # "pending" => scopeDisposals = 1
  /\ scopeDisposals = 0 => disposeLog = <<>>
  /\ scopeDisposals = 1 =>
       /\ disposeLog = Reverse(managed)
       /\ Range(managed) \cap alive = {}
       /\ \E v, r \in 1..Len(disposeLog) :
            /\ disposeLog[v] = VmH
            /\ disposeLog[r] = RuntimeH
            /\ v < r
            /\ r = Len(disposeLog)

\* C6 witness: an after-script hook threw and runCode returned the error
\* after the scope disposed the sandbox functions, the context and the runtime.
C6_Witness ==
  /\ pc = "returned"
  /\ result.err = "HookError"
  /\ Len(disposeLog) > 2

\* C7: after-script hooks run only when the initial eval returned no error
\* and the first drain reported none; when a def throws, the eval fails or
\* the first drain fails, no hook of any module is invoked.
C7_HooksOnlyAfterSuccess ==
  /\ pc \in {"start", "defs", "eval", "evalAwait", "drain1"} => hookLog = <<>>
  /\ thrownAt \in {"defs", "evalAwait", "drain1"} => hookLog = <<>>
  /\ hookLog # <<>> =>
       /\ evalCalls = 1
       /\ ~evalError
       /\ \A k \in 1..Len(defLog) : ~defLog[k].threw

\* C7 witness: a job threw in the first drain, modules had registered hooks
\* and runCode returned without invoking any.
C7_Witness ==
  /\ pc = "returned"
  /\ thrownAt = "drain1"
  /\ AllHooks # <<>>
  /\ hookLog = <<>>

\* C8: hooks run in module order first and registration order second, each
\* at most once, and each exactly once when the hook loop completes.
C8_HookOrder ==
  /\ \A a, b \in 1..Len(hookLog) :
       a < b => \/ hookLog[a].mod < hookLog[b].mod
                \/ hookLog[a].mod = hookLog[b].mod /\ hookLog[a].idx < hookLog[b].idx
  /\ Range(hookLog) \subseteq RegisteredHooks
  /\ (pc \in {"pumpDrain", "pumpYield", "finalDrain"} \/ ReturnedOk)
       => Range(hookLog) = RegisteredHooks

\* C8 witness: two modules registered hooks, three or more hooks ran and
\* runCode returned ok.
C8_Witness ==
  /\ ReturnedOk
  /\ Len(hookLog) >= 3
  /\ hookLog[1].mod # hookLog[Len(hookLog)].mod

\* C9: defs are invoked in the order of the modules argument, each with a
\* context whose hook list and keep-alive list are empty, and all of them
\* before the script is evaluated.
C9_DefOrderFreshCtx ==
  /\ \A k \in 1..Len(defLog) :
       /\ defLog[k].mod = k
       /\ defLog[k].hooksAtEntry = 0
       /\ defLog[k].keepAlivesAtEntry = 0
       /\ defLog[k].evalCallsAtEntry = 0
  /\ evalCalls > 0 =>
       /\ Len(defLog) = Len(modules)
       /\ \A k \in 1..Len(defLog) : ~defLog[k].threw

\* C9 witness: the script is evaluated after the defs of two modules ran,
\* the first of which registered hooks and a keep-alive promise.
C9_Witness ==
  /\ evalCalls = 1
  /\ Len(defLog) = 2
  /\ loadedModuleCtx[1].afterScriptExecutionHooks # <<>>
  /\ loadedModuleCtx[1].keepAlivePromises # <<>>

\* C10: when a def throws, runCode returns {type:'error'} carrying the
\* thrown value, the script is never evaluated and no later def is invoked.
C10_DefThrows ==
  \A k \in 1..Len(defLog) :
    defLog[k].threw =>
      /\ Len(defLog) = k
      /\ evalCalls = 0
      /\ pc \in {"teardown", "settle", "returned"}
      /\ thrown = "ModuleError"
      /\ pc = "returned" => result = [type |-> "error", err |-> "ModuleError"]

\* C10 witness: the first of two modules threw in def and runCode returned
\* its error.
C10_Witness ==
  /\ pc = "returned"
  /\ Len(modules) = 2
  /\ modules[1] = "throwing"
  /\ result.err = "ModuleError"

\* C11: when the initial eval returns an error or the first drain reports
\* one, runCode leaves the scope body there with the dumped guest error: no
\* hook runs, the keep-alive promises are not collected, no further drain is
\* started, and the result is {type:'error'} with that error.
C11_EvalOrFirstDrainError ==
  /\ evalError /\ pc \notin {"eval", "evalAwait"} => thrownAt = "evalAwait"
  /\ thrownAt \in {"evalAwait", "drain1"} =>
       /\ thrown = "GuestError"
       /\ pc \in {"teardown", "settle", "returned"}
       /\ frame = NoFrame
       /\ hookLog = <<>>
       /\ allPromises = <<>>
       /\ ~settled
       /\ thrownAt = "evalAwait" => jobLog = <<>>
       /\ pc = "returned" => result = [type |-> "error", err |-> "GuestError"]

\* C11 witness: a promise job threw in the first drain while another job
\* was still queued and a module had registered a hook and a keep-alive;
\* runCode returned the error.
C11_Witness ==
  /\ pc = "returned"
  /\ thrownAt = "drain1"
  /\ jobs # <<>>
  /\ AllHooks # <<>>
  /\ KeepAliveSnapshot # <<>>
  /\ result.err = "GuestError"

\* C12: when an after-script hook throws, it is the last hook invoked, the
\* keep-alive promises are not collected or waited for, and runCode returns
\* {type:'error'} with the value the hook threw.
C12_HookThrows ==
  /\ \A k \in 1..Len(hookLog) :
       hookLog[k].kind = "throws" => k = Len(hookLog) /\ thrownAt = "hooks"
  /\ thrownAt = "hooks" =>
       /\ thrown = "HookError"
       /\ hookLog # <<>>
       /\ hookLog[Len(hookLog)].kind = "throws"
       /\ hookLog = SubSeq(AllHooks, 1, Len(hookLog))
       /\ pc \in {"teardown", "settle", "returned"}
       /\ allPromises = <<>>
       /\ ~settled
       /\ pc = "returned" => result = [type |-> "error", err |-> "HookError"]

\* C12 witness: the hook of the first module threw, the second module had
\* registered a hook and a keep-alive promise that is still pending, and
\* runCode returned the error.
C12_Witness ==
  /\ pc = "returned"
  /\ result.err = "HookError"
  /\ Len(hookLog) < Len(AllHooks)
  /\ \E i \in 1..Len(modules) : keepAlive[i] = "pending"

\* C13: every pump-loop iteration drains the guest job queue before it
\* yields, a final drain follows the wait, and so whenever runCode returns
\* {type:'ok'} the guest job queue is empty.
C13_JobQueueEmptyOnOk ==
  ReturnedOk => jobs = <<>>

\* C14: when a drain inside the pump loop or the final drain reports an
\* error, runCode leaves the scope body at once with the dumped guest error:
\* no further job runs, the wait is not resumed (keep-alive promises may
\* still be pending), and the result is {type:'error'} with that error.
C14_PumpDrainError ==
  thrownAt \in {"pumpDrain", "finalDrain"} =>
    /\ thrown = "GuestError"
    /\ pc \in {"teardown", "settle", "returned"}
    /\ frame = NoFrame
    /\ jobLog # <<>>
    /\ thrownAt = "pumpDrain" => ~settled /\ allPromises # <<>>
    /\ thrownAt = "finalDrain" => (allPromises # <<>> => settled)
    /\ pc = "returned" => result = [type |-> "error", err |-> "GuestError"]

\* C14 witness: a job threw in a drain of the pump loop and runCode returned
\* the error while a keep-alive promise was pending.
C14_Witness ==
  /\ pc = "returned"
  /\ thrownAt = "pumpDrain"
  /\ result.err = "GuestError"
  /\ \E i \in 1..Len(modules) : keepAlive[i] = "pending"

\* C15: guest code executes only inside runCode's evalCodeAsync call and its
\* executePendingJobs calls; a host completion never enters the guest.
C15_GuestEntryOnlyFromRunCode ==
  frame.kind # "none" =>
    /\ frame.kind \in {"script", "job"}
    /\ pc \in {"eval"} \cup DrainStates

\* C16: no promise job runs while the script's top-level code executes,
\* jobs run in the order in which they were enqueued, and every job that was
\* enqueued has run when runCode returns {type:'ok'}.
C16_JobsInOrderAllRunOnOk ==
  /\ pc = "eval" => jobLog = <<>>
  /\ \A a, b \in 1..Len(jobLog) : a < b => jobLog[a] < jobLog[b]
  /\ ReturnedOk => Range(jobLog) = 1..(nextJob - 1)

\* No module other than timers registered a keep-alive promise.
OnlyTimersKeepAlive == \A i \in 1..Len(modules) : modules[i] # "keepAlive"

\* C17: with the timers module loaded, removing a timer from the table
\* decrements the active timer count; during the wait a count of zero means
\* the keep-alive promise of the timers module is resolved; and a run whose
\* timers have all fired or been cleared from some point on (a run that
\* creates no timer included) returns.
C17_TimersTermination ==
  /\ [][Cardinality(DOMAIN timers') < Cardinality(DOMAIN timers) =>
          activeTimerCount - activeTimerCount' =
            Cardinality(DOMAIN timers) - Cardinality(DOMAIN timers')]_vars
  /\ [](pc \in {"pumpDrain", "pumpYield", "finalDrain"} /\ ActiveTimers # 0
          /\ activeTimerCount = 0
        => keepAlive[ActiveTimers] = "fulfilled")
  /\ (OnlyTimersKeepAlive => (<>[](timers = <<>>) => <>Returned))

\* C17 witness: the guest cleared one timer, another one fired, and runCode
\* returned ok with the timer table empty.
C17_Witness ==
  /\ ReturnedOk
  /\ clearedByGuest # {}
  /\ \E id \in DOMAIN fireCount : fireCount[id] = 1 /\ id \notin clearedByGuest
  /\ timers = <<>>

\* C18: once the guest called clearTimeout or clearInterval with the id of
\* a timer in the table, the timer has no host timer scheduled any more and
\* its callback is never invoked again.
C18_ClearedNeverFires ==
  /\ [](clearedByGuest \cap (hostTimers \cup DOMAIN timers) = {})
  /\ [][\A id \in clearedByGuest : fireCount'[id] = fireCount[id]]_vars

\* C18 witness: the guest cleared a timer whose callback had not run, the
\* callback of another timer ran afterwards and runCode returned ok.
C18_Witness ==
  /\ ReturnedOk
  /\ \E id \in clearedByGuest :
       /\ fireCount[id] = 0
       /\ \E other \in DOMAIN fireCount : other > id /\ fireCount[other] = 1

\* C19: a clearTimeout or clearInterval call whose argument is not the id
\* of a timer in the table (a number never issued or no longer in the
\* table, null, undefined, a non-number, no argument) does not throw and
\* leaves the timer table, the scheduled host timers, the active timer
\* count, the keep-alive state and the handles unchanged.
C19_ClearInvalidIdNoOp ==
  [][\A arg \in ClearArgs :
       (arg.type # "number" \/ arg.value \notin DOMAIN timers) /\ GuestClearTimer(arg)
       => UNCHANGED <<timers, hostTimers, activeTimerCount, resolveKeepAlive,
                      isCleaningUp, keepAlive, alive, nextTimerId, clearedByGuest,
                      pc, thrown, frame>>]_vars

\* C19 witness: with only the timers module loaded the guest made two or
\* more calls, none of which created a timer, queued a job or cleared a
\* timer of the table, and runCode returned ok.
C19_Witness ==
  /\ ReturnedOk
  /\ modules = <<"timers">>
  /\ budget <= MaxSize - 3
  /\ timerCalls = <<>>
  /\ nextJob = 1

\* C20: the callback of a timeout is invoked at most once, and a
\* clearTimeout call with the timeout's own id made from inside its callback
\* changes no timer state: the table, the active timer count, the keep-alive
\* state and the handles stay as they are, the count being decremented once,
\* when the host callback clears the timer after the guest callback returned.
C20_ClearOwnIdInCallbackNoOp ==
  /\ [](\A id \in DOMAIN created : created[id] = "timeout" => fireCount[id] <= 1)
  /\ [][(/\ frame.kind = "timer"
         /\ created[frame.timer] = "timeout"
         /\ GuestClearTimer([type |-> "number", value |-> frame.timer]))
        => UNCHANGED <<timers, hostTimers, activeTimerCount, resolveKeepAlive,
                       isCleaningUp, keepAlive, alive>>]_vars

C22_CallbackThrowIsContained ==
  [][frame.kind = "timer" /\ GuestThrow =>
       /\ UNCHANGED <<pc, thrown, thrownAt, evalError, result, returns>>
       /\ hostTimers \ {frame.timer} \subseteq hostTimers'
       /\ DOMAIN timers \ {frame.timer} \subseteq DOMAIN timers'
       /\ created[frame.timer] = "timeout" =>
            /\ frame.timer \notin DOMAIN timers'
            /\ frame.timer \notin hostTimers'
            /\ frame.timer \in DOMAIN timers => activeTimerCount' = activeTimerCount - 1]_vars

\* C22 witness: a timer callback threw, a timer registered after that one
\* fired as well, and runCode returned ok.
C22_Witness ==
  /\ callbackThrew
  /\ ReturnedOk
  /\ \E a, b \in DOMAIN fireCount : a < b /\ fireCount[a] = 1 /\ fireCount[b] = 1
  /\ timers = <<>>
  /\ activeTimerCount = 0

\* C23: the delay handed to the host timer is 0 when the delay argument is
\* missing, is not a number, is negative or is not finite; otherwise it is
\* the argument itself when that is at most 2147483647, and 2147483647 when
\* it is larger.
C23_DelayCoercion ==
  delayFor # "none" =>
    LET InRange(d) == d.type = "number" /\ (~d.neg \/ (d.hi = 0 /\ d.lo = 0))
        AboveMax(d) == d.hi > MaxDelayHi \/ (d.hi = MaxDelayHi /\ d.lo > MaxDelayLo)
    IN  /\ delayMs.type = "number"
        /\ ~InRange(delay) => delayMs.hi = 0 /\ delayMs.lo = 0
        /\ InRange(delay) /\ ~AboveMax(delay) =>
             delayMs.hi = delay.hi /\ delayMs.lo = delay.lo
        /\ InRange(delay) /\ AboveMax(delay) =>
             delayMs.hi = MaxDelayHi /\ delayMs.lo = MaxDelayLo

\* C23 witness: a delay above the maximum was capped.
C23_Witness ==
  /\ delayFor = "timeout"
  /\ delay = Num(FALSE, MaxDelayHi + 1, 0)
  /\ delayMs = MaxDelay

\* The host values C24 names: null, undefined, booleans, numbers, strings,
\* and the arrays and plain objects made of them.
RECURSIVE Plain(_)
Plain(v) ==
  \/ v.t \in {"null", "undefined", "boolean", "number", "string"}
  \/ /\ v.t \in {"array", "object"}
     /\ ~isPromise(v)
     /\ \A i \in 1..Len(v.items) : Plain(v.items[i])

Marshalled == marshalled # NotMarshalled

\* C24: for every host value made of null, undefined, booleans, numbers,
\* strings, arrays and plain objects, marshalToVM returns a handle and
\* dumping that handle gives back a value structurally equal to the host
\* value.
C24_RoundTrip ==
  Marshalled /\ Plain(value) =>
    /\ ~marshalled.threw
    /\ dump(marshalled.handle) = value

\* C25: marshalToVM on a host array returns the handle of a guest array,
\* the one it created with newArray, whose element i is the marshalled i-th
\* element, and marshals each element exactly once, in order.
C25_ArrayMarshalling ==
  Marshalled /\ value.t = "array" /\ ~marshalled.threw =>
    LET each == MarshalEach(value.items)
    IN  /\ marshalled.handle.gt = "array"
        /\ marshalled.handle.gitems = each.handles
        /\ marshalled.calls = <<value>> \o each.calls
        /\ marshalled.newArrays = 1 + each.newArrays

\* A function is the value itself, an element of an array or the value of
\* a property of an object, at any depth.
RECURSIVE HasFunction(_)
HasFunction(v) ==
  \/ v.t = "function"
  \/ /\ v.t \in {"array", "object"}
     /\ \E i \in 1..Len(v.items) : HasFunction(v.items[i])

\* C26 (as claimed): marshalToVM on a host function, at top level or nested
\* as an array element or object property, fails with an error and returns
\* no handle.
C26_Original ==
  Marshalled /\ HasFunction(value) =>
    marshalled.threw /\ marshalled.handle.gt = "none"

\* A function that marshalToVM comes to: the value itself, or one inside an
\* element of an array or a property of an object that has no function
\* valued "then" property.
RECURSIVE ReachesFunction(_)
ReachesFunction(v) ==
  \/ v.t = "function"
  \/ /\ v.t \in {"array", "object"}
     /\ ~isPromise(v)
     /\ \E i \in 1..Len(v.items) : ReachesFunction(v.items[i])

\* C26 (amended): marshalToVM fails with an error and returns no handle
\* exactly when the value is a host function or holds one as an array element
\* or as a property of a plain object, at any depth, where an object whose
\* "then" property is a function counts as a promise and not as a plain
\* object: such an object is marshalled to a guest promise without looking
\* at its properties, and an Error is marshalled by name and message only.
C26_FunctionFails ==
  Marshalled =>
    /\ marshalled.threw <=> ReachesFunction(value)
    /\ marshalled.threw => marshalled.handle.gt = "none"
    /\ HasFunction(value) /\ ~marshalled.threw =>
         \E i \in 1..Len(marshalled.calls) : isPromise(marshalled.calls[i])

\* C26 witness: a function nested two levels deep made marshalToVM throw.
C26_Witness ==
  /\ Marshalled
  /\ marshalled.threw
  /\ value.t = "array"
  /\ Len(value.items) = 1
  /\ value.items[1].t = "object"
  /\ value.items[1].items = <<H("function", 0, <<>>, <<>>)>>

\* C27: the guest promise of a marshalled host promise is settled at most
\* once: fulfilled with the marshalled value when the host promise fulfils,
\* rejected when the host promise rejects or when marshalling the fulfilment
\* value throws; and none of these failures surfaces as a host-side error.
C27_PromiseBridge ==
  /\ [](value.t = "promise" /\ Marshalled =>
          /\ ~unhandledRejection
          /\ guestPromise.state = "fulfilled" =>
               /\ value.keys[1] = "fulfil"
               /\ guestPromise.with = marshalToVM(value.items[1]).handle
          /\ guestPromise.state = "rejected" =>
               value.keys[1] = "reject" \/ marshalToVM(value.items[1]).threw)
  /\ [][guestPromise.state \in {"fulfilled", "rejected"} => guestPromise' = guestPromise]_vars

\* C28: when a host function installed with defineSandboxFn throws, or
\* returns a value marshalToVM cannot marshal, nothing unwinds into runCode:
\* the guest gets a thrown error with the name and message of the host's
\* and keeps running (it may catch it), runCode's position is untouched; and
\* whatever the guest does with the error, runCode returns a result after
\* disposing the scope exactly once.
C28_SandboxFnErrorStaysInGuest ==
  /\ [][\A o \in DefOutcomes :
          GuestCallSandboxFn(o) /\ transformedFunc(o).threw =>
            /\ UNCHANGED <<pc, thrown, thrownAt, frame, result, returns>>
            /\ guestErrors' = Append(guestErrors,
                                     [name |-> transformedFunc(o).error.name,
                                      message |-> transformedFunc(o).error.message,
                                      world |-> "guest"])]_vars
  /\ [](Returned /\ guestErrors # <<>> =>
          /\ result.type \in {"ok", "error"}
          /\ scopeDisposals = 1
          /\ returns = 1)

\* C28 witness: the guest was thrown both errors, that of a throwing def
\* and that of an unmarshallable result, and runCode returned ok after
\* disposing the scope.
C28_Witness ==
  /\ ReturnedOk
  /\ scopeDisposals = 1
  /\ \E a, b \in 1..Len(guestErrors) :
       /\ guestErrors[a].message = "def failed"
       /\ guestErrors[b].message = "Cannot marshal function to VM"

\* C30: on a successful evaluation onFinish has been called exactly once,
\* with all the entries recorded during the run in call order; no entry is
\* recorded after onFinish was invoked; and when the evaluation failed
\* onFinish was not called.
C30_OnFinish ==
  /\ [](ReturnedOk =>
          \A i \in 1..Len(modules) :
            modules[i] = "console" =>
              /\ Cardinality({k \in 1..Len(onFinishCalls) : onFinishCalls[k].mod = i}) = 1
              /\ \A k \in 1..Len(onFinishCalls) :
                   onFinishCalls[k].mod = i => onFinishCalls[k].entries = entries[i])
  /\ [][\A k \in 1..Len(onFinishCalls) :
          entries'[onFinishCalls[k].mod] = entries[onFinishCalls[k].mod]]_vars
  /\ [](Returned /\ evalError => onFinishCalls = <<>>)

\* What call e can observe: what it created and was returned, and the
\* variables of its modules.
ViewOf(e) ==
  [run |-> evals[e],
   state |-> [i \in 1..Len(evals[e].loadedModuleCtx) |-> closures[ClosureOf(e, i)]]]

\* C29: two runCode calls on one cage with the same module objects, one
\* after the other or overlapping, have each their own runtime, context,
\* scope, module contexts and module variables; a step of one call (a def, a
\* hook, a timer, a console counter) changes nothing the other call created
\* or observes.
C29_EvaluationsIsolated ==
  /\ [](\A a, b \in Evals :
          a # b /\ evals[a].pc # "idle" /\ evals[b].pc # "idle" =>
            /\ evals[a].runtime # evals[b].runtime
            /\ evals[a].vm # evals[b].vm
            /\ evals[a].scope # evals[b].scope
            /\ Range(evals[a].loadedModuleCtx) \cap Range(evals[b].loadedModuleCtx) = {}
            /\ \A i \in 1..Len(evals[a].loadedModuleCtx), j \in 1..Len(evals[b].loadedModuleCtx) :
                 ClosureOf(a, i) # ClosureOf(b, j))
  /\ [][\A e \in Evals : ViewOf(e)' # ViewOf(e) => actor' = e]_vars

\* C29 witness: two overlapping calls each have a pending timer with id 1
\* and were each given the count 1 by console.count().
C29_Witness ==
  /\ evals[1].pc = "wait"
  /\ evals[2].pc = "wait"
  /\ evals[1].ids = <<1>> /\ evals[2].ids = <<1>>
  /\ evals[1].counts = <<1>> /\ evals[2].counts = <<1>>
  /\ closures[TimersOf(1)].timers = {1}
  /\ closures[TimersOf(2)].timers = {1}

\* The console calls k of the given functions about the label, among the
\* first n calls.
CallsOf(fns, label, n) ==
  {k \in 1..n : consoleCalls[k].fn \in fns /\ consoleCalls[k].label = label}

Last(S) == IF S = {} THEN 0 ELSE CHOOSE k \in S : \A j \in S : j <= k

\* C31: console.count(label) reports 1 plus the number of count calls for
\* that label made since the last countReset of that label, or since the
\* start when there was none; calls for other labels do not count, and an
\* omitted label is the label "default".
C31_CountSinceReset ==
  \A k \in 1..Len(consoleCalls) :
    consoleCalls[k].fn = "count" =>
      LET label == consoleCalls[k].label
          reset == Last(CallsOf({"countReset"}, label, k - 1))
      IN  /\ consoleCalls[k].out.told
          /\ consoleCalls[k].out.value =
               1 + Cardinality({j \in CallsOf({"count"}, label, k - 1) : j > reset})

\* C31 witness: count, count, countReset, count for one label reported
\* 1, 2 and 1.
C31_Witness ==
  /\ Len(consoleCalls) = 4
  /\ [k \in 1..4 |-> consoleCalls[k].fn] = <<"count", "count", "countReset", "count">>
  /\ \A k \in 1..4 : consoleCalls[k].label = "default"
  /\ consoleCalls[2].out.value = 2
  /\ consoleCalls[4].out.value = 1

\* The calls among the first n that told the handler of a group, of a
\* group end.
GroupsTold(n) == {k \in 1..n : consoleCalls[k].fn = "group" /\ consoleCalls[k].out.told}
GroupEndsTold(n) == {k \in 1..n : consoleCalls[k].fn = "groupEnd" /\ consoleCalls[k].out.told}

\* C32: the group depth is never negative; after any sequence of console
\* calls the handler was told of at most as many group ends as of groups;
\* and a groupEnd called when no group is open tells the handler nothing.
C32_GroupEndNeverExceeds ==
  /\ groupDepth >= 0
  /\ groupDepth = Cardinality(GroupsTold(Len(consoleCalls)))
                    - Cardinality(GroupEndsTold(Len(consoleCalls)))
  /\ \A n \in 1..Len(consoleCalls) :
       /\ Cardinality(GroupEndsTold(n)) <= Cardinality(GroupsTold(n))
       /\ consoleCalls[n].fn = "groupEnd" =>
            (consoleCalls[n].out.told <=>
               Cardinality(GroupEndsTold(n - 1)) < Cardinality(GroupsTold(n - 1)))

\* C32 witness: group, groupEnd, groupEnd: the second groupEnd told the
\* handler nothing.
C32_Witness ==
  /\ Len(consoleCalls) = 3
  /\ [k \in 1..3 |-> consoleCalls[k].fn] = <<"group", "groupEnd", "groupEnd">>
  /\ consoleCalls[2].out.told
  /\ ~consoleCalls[3].out.told
  /\ groupDepth = 0

\* The time(label) call that started the timer running for the label
\* before call k: the last one with no timeEnd of the label after it; 0
\* when no timer is running.
RunningSince(label, k) ==
  LET started == Last(CallsOf({"time"}, label, k - 1))
      ended == Last(CallsOf({"timeEnd"}, label, k - 1))
  IN  IF started > ended THEN started ELSE 0

\* C33: timeEnd(label) and timeLog(label) report the milliseconds elapsed
\* between the time(label) call and themselves; timeEnd stops the timer, and
\* a timeEnd or timeLog of a label without a running timer reports nothing.
C33_ElapsedTime ==
  \A k \in 1..Len(consoleCalls) :
    consoleCalls[k].fn \in {"timeEnd", "timeLog"} =>
      LET started == RunningSince(consoleCalls[k].label, k)
      IN  IF started = 0
          THEN ~consoleCalls[k].out.told
          ELSE /\ consoleCalls[k].out.told
               /\ consoleCalls[k].out.value = consoleCalls[k].at - consoleCalls[started].at

\* part_005:146-147 (and 191-192): the handles setTimeout and setInterval
\* duplicated for the timer id.
DupHandles(id) == {<<"cb", id, 0>>} \cup {<<"arg", id, k>> : k \in 1..NumArgs}

\* The handles of a timer are alive exactly while the timer is in the table:
\* they are disposed together with its removal, and so never twice.
DisposedOnlyWithRemoval ==
  \A id \in DOMAIN created :
    IF id \in DOMAIN timers
    THEN DupHandles(id) \subseteq alive
    ELSE DupHandles(id) \cap alive = {}

\* C34: every handle the timers module duplicated (the callback and each
\* argument of a timer) is disposed exactly once: only together with the
\* removal of its timer from the table, hence never twice, and every one of
\* them has been disposed when runCode has returned.
C34_DupHandlesDisposedOnce ==
  /\ DisposedOnlyWithRemoval
  /\ Returned => \A id \in DOMAIN created : DupHandles(id) \cap alive = {}

\* The keep-alive promise of the timers module has been resolved.
KeepAliveResolved == ActiveTimers # 0 /\ keepAlive[ActiveTimers] = "fulfilled"

\* C35: whenever the keep-alive promise of the timers module has been
\* resolved the active timer count is 0 and no timer is registered or
\* scheduled: a setTimeout or setInterval call made after the resolution
\* schedules nothing.
C35_NoTimerAfterResolution ==
  KeepAliveResolved =>
    /\ activeTimerCount = 0
    /\ DOMAIN timers = {}
    /\ hostTimers = {}

\* C36: after runCode has returned and the scope is disposed, no host
\* callback (a timer firing, a fetch completing, a bridged host promise
\* settling) calls into the disposed context.
C36_NoCallIntoDisposedContext ==
  (Returned /\ scopeDisposals >= 1) => ~useAfterDispose

\* C37: in the timers module the active timer count equals the number of
\* entries of the timer table in every state, whatever setTimeout,
\* setInterval, clearTimeout, clearInterval calls and firings were made;
\* the table is empty when the keep-alive promise gets resolved; and the
\* promise is resolved at most once: only through a resolve function that
\* is dropped by that very step and never comes back.
C37_CountMatchesTable ==
  /\ [](activeTimerCount = Cardinality(DOMAIN timers))
  /\ [](ActiveTimers # 0 => (KeepAliveResolved <=> resolveKeepAlive = "null"))
  /\ [][/\ (~KeepAliveResolved /\ KeepAliveResolved') =>
             /\ DOMAIN timers' = {}
             /\ resolveKeepAlive # "null"
             /\ resolveKeepAlive' = "null"
        /\ resolveKeepAlive = "null" => resolveKeepAlive' = "null"]_vars

\* C37 witness: timers were registered, all of them are gone again and the
\* keep-alive promise is resolved with count 0.
C37_Witness ==
  /\ KeepAliveResolved
  /\ Cardinality(DOMAIN created) >= 2
  /\ \E id \in DOMAIN created : fireCount[id] >= 1
  /\ \E id \in DOMAIN created : id \in clearedByGuest
  /\ activeTimerCount = 0
  /\ timers = <<>>

\* A keep-alive promise runCode waits for has rejected while runCode is
\* suspended in the pump loop.
RejectedInPump ==
  /\ pc = "pumpYield"
  /\ \E k \in 1..Len(allPromises) : keepAlive[allPromises[k]] = "rejected"

\* runCode returned the error result that carries the rejection, with the
\* scope disposed.
ReturnedRejection ==
  /\ Returned
  /\ result = [type |-> "error", err |-> "KeepAliveRejection"]
  /\ scopeDisposals = 1

\* C38: when a keep-alive promise runCode waits for rejects, runCode does
\* not hang: its next step leaves the pump loop with the rejection, whatever
\* the other keep-alive promises are doing, and it goes on to dispose the
\* scope and to return {type:'error'} carrying the rejection.
C38_KeepAliveRejection ==
  /\ [][(RejectedInPump /\ pc' # pc) =>
          (pc' = "teardown" /\ thrown' = "KeepAliveRejection")]_vars
  /\ RejectedInPump ~> ReturnedRejection

\* C38 witness: runCode returned the rejection of one keep-alive promise
\* while another one it waited for is still pending.
C38_Witness ==
  /\ ReturnedRejection
  /\ Len(allPromises) = 2
  /\ \E k \in 1..Len(allPromises) : keepAlive[allPromises[k]] = "pending"

\* runCode's positions from which the snapshot of main.ts:89 is still to
\* come: the initial eval, the first drain, the hooks.
BeforeSnapshot == {"eval", "drain1", "hooks"}

\* The promises appended to some keepAlivePromises before the snapshot: by
\* the defs, and by host functions and hooks up to the last hook.
AppendedInTime ==
  UNION {Range(KeepAlivesOfDef(modules[k], k)) : k \in 1..Len(loadedModuleCtx)}
    \cup {pushLog[k].id : k \in {j \in 1..Len(pushLog) : pushLog[j].at \in BeforeSnapshot}}

\* The promises appended after the snapshot.
AppendedLate ==
  {pushLog[k].id : k \in {j \in 1..Len(pushLog) : pushLog[j].at \notin BeforeSnapshot}}

\* C39: the set of keep-alive promises runCode waits for is computed once,
\* in the step that follows the last hook: it holds exactly the promises
\* appended by the defs, during the initial eval, during the first drain and
\* by the hooks, and it never changes afterwards, so promises appended later
\* are not in it; when it is empty runCode makes no pump iteration and goes
\* to the final drain; and runCode returns ok only when every promise of the
\* set is fulfilled.
C39_SnapshotOnce ==
  /\ [][allPromises' # allPromises => pc = "hooks" /\ allPromises = <<>>]_vars
  /\ [][(pc = "hooks" /\ pc' \in {"pumpDrain", "finalDrain"}) =>
          /\ Range(allPromises') = AppendedInTime
          /\ Len(allPromises') = Cardinality(AppendedInTime)
          /\ (pc' = "finalDrain" <=> AppendedInTime = {})]_vars
  /\ [](pc \in {"pumpDrain", "pumpYield"} => allPromises # <<>>)
  /\ [](Range(allPromises) \cap AppendedLate = {})
  /\ [](ReturnedOk => /\ Range(allPromises) = AppendedInTime
                      /\ \A p \in AppendedInTime : keepAlive[p] = "fulfilled")

\* C39 witness: runCode returned ok having waited for a promise appended
\* during the initial eval and for one a hook appended, while a promise
\* appended during the pump loop is still pending.
C39_Witness ==
  /\ ReturnedOk
  /\ \E k \in 1..Len(pushLog) : pushLog[k].at = "eval" /\ pushLog[k].id \in Range(allPromises)
  /\ \E k \in 1..Len(pushLog) : pushLog[k].by = "hook" /\ pushLog[k].id \in Range(allPromises)
  /\ \E p \in AppendedLate : keepAlive[p] = "pending"

====
